---- MODULE Spec2Model ----
(***************************************************************************)
(* A model of the two-tier cache of src/cache: the CircuitBreaker          *)
(* (circuit_breaker.py), the L2 client UniversalRedisCache with its        *)
(* retry loop (redis_cache.py), the coordinator MultiLevelCache            *)
(* (multi_level_cache.py), the value codecs (redis_cache.py,               *)
(* simplified_cache.py), the CacheWarmer (warmer.py) and the cache_result  *)
(* decorator (decorators.py).                                              *)
(*                                                                         *)
(* Scheduling is asyncio's: a task runs without interruption from one      *)
(* suspension point to the next, so one action is the code between two     *)
(* suspensions.  The suspension points are the backend commands, the       *)
(* backoff sleep and the compute function.                                 *)
(*                                                                         *)
(* The specifications share the state:                                     *)
(*   SpecCB        tasks that use CircuitBreaker.protect directly          *)
(*   SpecBreaker   is_open, record_success, record_failure called directly *)
(*   SpecThreshold the same, for every failure threshold up to a bound     *)
(*   SpecL2        tasks that call the L2 client's data operations         *)
(*   SpecRetry     tasks that call get and set of the L2 client, with a    *)
(*                 backend that always answers                             *)
(*   SpecClient    one task for get, set, delete, exists and one for       *)
(*                 clear_pattern of the L2 client, over a backend that     *)
(*                 may hold undecodable bytes                              *)
(*   SpecCache     one task that calls get, set, delete of MultiLevelCache *)
(*                 and the write-back task its gets create                 *)
(*   SpecSet       one task that calls set and get, L1 writes may raise    *)
(*   SpecTTL       one task that calls set and get for two categories      *)
(*   SpecClear     one task that calls set and clear_pattern               *)
(*   SpecKeys      one task that calls set and get for keys and categories *)
(*                 that contain the separator                              *)
(*   SpecWarmKeys  one task that warms a query and a phone and reads them  *)
(*   SpecDecorator one task that calls a function decorated with           *)
(*                 cache_result                                            *)
(*   SpecBatch     clear_pattern over several DELETE batches               *)
(*   SpecCodec     _serialize and _deserialize applied to one value        *)
(*   SpecStampede  two tasks that call get with a compute function         *)
(*   SpecWarm      overlapping calls of CacheWarmer.warm_custom_data       *)
(*   SpecWarmOne   one call of CacheWarmer.warm_custom_data                *)
(*   SpecShutdown  MultiLevelCache.shutdown next to the tasks in progress  *)
(*   SpecManager   tasks calling CacheManager.initialize and shutdown      *)
(* SpecL2, SpecCache and SpecStampede use one cache entry; one write-back  *)
(* task exists at a time (a compute function returns once the previous     *)
(* write-back is over).  In SpecCodec, SpecBatch, SpecBreaker,             *)
(* SpecThreshold, SpecWarm, SpecWarmOne, SpecShutdown and SpecManager the  *)
(* variable th holds the state of the part they model, and the variables   *)
(* they do not use stay as they start.                                     *)
(***************************************************************************)
EXTENDS Naturals, Integers, Sequences, FiniteSets, TLC

(***************************************************************************)
(* Configuration (CacheConfig): small values of the configurable fields.   *)
(***************************************************************************)
Threshold == 2      \* circuit_breaker_threshold
Timeout == 1        \* circuit_breaker_timeout, in clock ticks
MaxRetries == 1     \* max_retries
L1MaxSize == 1      \* l1_max_size
L1TTL == 2          \* l1_default_ttl, in clock ticks
BatchSize == 100    \* batch_size of clear_pattern
CompressionEnabled == TRUE  \* compression_enabled
CompressionThreshold == 2   \* compression_threshold, in bytes of the model
EnableWarming == TRUE       \* enable_warming
WarmingConcurrency == 1     \* warming_concurrency

(***************************************************************************)
(* Bounds of the model.                                                    *)
(***************************************************************************)
MaxTime == 3        \* the clock stops here
MaxFailures == 3    \* no failure is recorded once failure_count is here
MaxLen == 3         \* the largest encoded size of a value of SpecCodec
MaxWarmTasks == 3   \* no more warming tasks than this exist at a time
MaxCaches == 3      \* no more MultiLevelCache objects than this are created

Tasks == {"t1", "t2"}

\* A Python value is <<type, content, encoded length>>.
None == <<"NoneType", "None", 4>>
True == <<"bool", "True", 4>>
False == <<"bool", "False", 5>>
V1 == <<"str", "v1", 1>>
V2 == <<"str", "v2", 1>>
Values == {V1, V2}

\* Keys, categories and patterns are strings, written as sequences of
\* characters.  The categories "default" and "business_lookup" are written
\* d and b.
Default == <<"d">>
BusinessLookup == <<"b">>
\* the cache entries the tasks use: one key in two categories
Entries == { [key |-> <<"k">>, cache_type |-> Default],
             [key |-> <<"k">>, cache_type |-> BusinessLookup] }
Patterns == {<<"*">>, <<"k">>}

VARIABLES
    cb,         \* the CircuitBreaker: state, failure_count, last_failure_time
    now,        \* time.time()
    th,         \* per task: its position and locals
    connected,  \* UniversalRedisCache._connected (and redis_client is set)
    l2,         \* the backend: wire key -> stored bytes, or None
    l1,         \* MultiLevelCache.l1_cache, least recently used entry first
    prev,       \* history: the breaker state before its latest change
    streak,     \* history: failures recorded since the latest success
    cw          \* history: per cache entry, the value a get computed for it

vars == <<cb, now, th, connected, l2, l1, prev, streak, cw>>
cacheVars == <<connected, l2, l1, cw>>

(***************************************************************************)
(* CircuitBreaker                                                          *)
(***************************************************************************)
CircuitBreakerInit ==
    [state |-> "CLOSED", failure_count |-> 0, last_failure_time |-> 0]

\* is_open: the value returned
is_open(b, t) ==
    IF b.state = "OPEN"
    THEN ~(t - b.last_failure_time > Timeout)
    ELSE FALSE

\* mutant: the timeout moves OPEN straight to CLOSED
is_open_state_skipping(b, t) ==
    IF b.state = "OPEN" /\ t - b.last_failure_time > Timeout
    THEN [b EXCEPT !.state = "CLOSED"]
    ELSE b

\* is_open: the breaker it leaves
is_open_state(b, t) ==
    IF b.state = "OPEN" /\ t - b.last_failure_time > Timeout
    THEN [b EXCEPT !.state = "HALF_OPEN"]
    ELSE b

\* mutant: the failure count survives a success
record_success_keeping_count(b) ==
    [b EXCEPT !.state = IF b.state \in {"HALF_OPEN", "OPEN"} THEN "CLOSED" ELSE b.state]

record_success(b) ==
    LET previous_state == b.state
        b1 == [b EXCEPT !.failure_count = 0]
    IN  IF b1.state = "HALF_OPEN" THEN [b1 EXCEPT !.state = "CLOSED"]
        ELSE IF previous_state = "OPEN" THEN [b1 EXCEPT !.state = "CLOSED"]
        ELSE b1

\* a record_failure that counts and never trips
record_failure_not_tripping(b, t) ==
    [b EXCEPT !.failure_count = b.failure_count + 1, !.last_failure_time = t]

record_failure(b, t) ==
    LET b1 == [b EXCEPT !.failure_count = b.failure_count + 1,
                        !.last_failure_time = t]
    IN  IF b1.failure_count >= Threshold THEN [b1 EXCEPT !.state = "OPEN"] ELSE b1

\* mutant: a rejected call counts as a failure
protect_enter_counting(b, t) ==
    IF is_open(b, t)
    THEN [admitted |-> FALSE, cb |-> record_failure(is_open_state(b, t), t)]
    ELSE [admitted |-> TRUE, cb |-> is_open_state(b, t)]

\* protect, up to the yield: reject with CircuitBreakerOpenError or admit
protect_enter(b, t) ==
    IF is_open(b, t)
    THEN [admitted |-> FALSE, cb |-> is_open_state(b, t)]
    ELSE [admitted |-> TRUE, cb |-> is_open_state(b, t)]

\* history: the state before the latest change of the breaker state
PrevAfter(b1) == IF b1.state # cb.state THEN cb.state ELSE prev

(***************************************************************************)
(* SpecCB: tasks running `async with breaker.protect(): <inner>`.          *)
(* pc: idle, inner (suspended in the inner operation), and how the latest  *)
(* call ended: raisedOpen, ok, err, cancelled.                             *)
(* History per task: adm, the breaker state at admission; rec, the outcome *)
(* recorded for the admitted call; stale, whether the breaker opened       *)
(* while the call was in progress.                                         *)
(***************************************************************************)
CBTaskInit == [pc |-> "idle", adm |-> "none", rec |-> "none", stale |-> FALSE]

CBInit ==
    /\ cb = CircuitBreakerInit
    /\ now = 0
    /\ th = [t \in Tasks |-> CBTaskInit]
    /\ prev = "CLOSED"
    /\ streak = 0
    /\ connected = FALSE
    /\ l2 = <<>>
    /\ l1 = <<>>
    /\ cw = <<>>

\* a task enters protect()
CBCall(t) ==
    /\ th[t].pc = "idle"
    /\ LET r == protect_enter(cb, now) IN
        /\ cb' = r.cb
        /\ prev' = PrevAfter(r.cb)
        /\ th' = [th EXCEPT ![t] =
                    IF r.admitted
                    THEN [pc |-> "inner", adm |-> r.cb.state, rec |-> "none", stale |-> FALSE]
                    ELSE [CBTaskInit EXCEPT !.pc = "raisedOpen"]]
    /\ UNCHANGED <<now, streak, cacheVars>>

\* the inner operation returns: protect calls record_success
CBInnerReturn(t) ==
    /\ th[t].pc = "inner"
    /\ LET b1 == record_success(cb) IN
        /\ cb' = b1
        /\ prev' = PrevAfter(b1)
    /\ streak' = 0
    /\ th' = [th EXCEPT ![t].pc = "ok", ![t].rec = "success"]
    /\ UNCHANGED <<now, cacheVars>>

\* the inner operation raises an Exception: protect calls record_failure
CBInnerRaise(t) ==
    /\ th[t].pc = "inner"
    /\ cb.failure_count < MaxFailures
    /\ LET b1 == record_failure(cb, now) IN
        /\ cb' = b1
        /\ prev' = PrevAfter(b1)
        /\ th' = [u \in Tasks |->
                    IF u = t THEN [th[u] EXCEPT !.pc = "err", !.rec = "failure"]
                    ELSE IF th[u].pc = "inner" /\ b1.state = "OPEN"
                         THEN [th[u] EXCEPT !.stale = TRUE]
                         ELSE th[u]]
    /\ streak' = streak + 1
    /\ UNCHANGED <<now, cacheVars>>

\* the task awaiting the inner operation is cancelled: CancelledError is a
\* BaseException, `except Exception` does not catch it
CBInnerCancel(t) ==
    /\ th[t].pc = "inner"
    /\ th' = [th EXCEPT ![t].pc = "cancelled"]
    /\ UNCHANGED <<cb, now, prev, streak, cacheVars>>

\* the caller goes on after the call ended
CBContinue(t) ==
    /\ th[t].pc \in {"raisedOpen", "ok", "err", "cancelled"}
    /\ th' = [th EXCEPT ![t] = CBTaskInit]
    /\ UNCHANGED <<cb, now, prev, streak, cacheVars>>

\* time passes
CBTick ==
    /\ now < MaxTime
    /\ now' = now + 1
    /\ UNCHANGED <<cb, th, prev, streak, cacheVars>>

CBNext ==
    \/ \E t \in Tasks : CBCall(t)
    \/ \E t \in Tasks : CBInnerReturn(t)
    \/ \E t \in Tasks : CBInnerRaise(t)
    \/ \E t \in Tasks : CBInnerCancel(t)
    \/ \E t \in Tasks : CBContinue(t)
    \/ CBTick

SpecCB == CBInit /\ [][CBNext]_vars

(***************************************************************************)
(* Claims about the CircuitBreaker, checked under SpecCB.                  *)
(***************************************************************************)
\* the step in which task t calls protect()
CBCalls(t) == th[t].pc = "idle" /\ th'[t].pc # "idle"

\* the failure that completes `threshold` consecutive failures opens the
\* breaker, and is_open() asked at once answers true
C5Trip ==
    (streak' = streak + 1 /\ streak' >= Threshold)
        => (cb'.state = "OPEN" /\ is_open(cb', now'))

\* a call made while OPEN, once the timeout is over, is admitted as HALF_OPEN
C5Admit(strict) ==
    \A t \in Tasks :
        ( /\ CBCalls(t)
          /\ cb.state = "OPEN"
          /\ IF strict THEN now - cb.last_failure_time > Timeout
                       ELSE now - cb.last_failure_time >= Timeout )
        => (th'[t].pc = "inner" /\ cb'.state = "HALF_OPEN")

\* the success of a call admitted as HALF_OPEN closes the breaker
C5Close ==
    \A t \in Tasks :
        (th[t].pc = "inner" /\ th[t].adm = "HALF_OPEN" /\ th'[t].pc = "ok")
        => (cb'.state = "CLOSED" /\ cb'.failure_count = 0)

\* C5 as stated: from CLOSED, `threshold` consecutive failures make is_open()
\* true; once `timeout` seconds have elapsed since the last failure
\* (elapsed >= timeout) the next call is admitted as HALF_OPEN, and its
\* success leaves the breaker CLOSED with failure count 0.
C5_AsClaimed == [][C5Trip /\ C5Admit(FALSE) /\ C5Close]_vars

\* C5 amended: the same, with the call admitted once MORE than `timeout`
\* seconds have elapsed (time.time() - last_failure_time > timeout); at
\* exactly `timeout` seconds the call is still rejected.
C5_TripAndRecover == [][C5Trip /\ C5Admit(TRUE) /\ C5Close]_vars

\* C5 witness: the breaker tripped, was probed as HALF_OPEN and the probe's
\* success closed it
C5_Witness ==
    /\ cb.state = "CLOSED" /\ prev = "HALF_OPEN" /\ cb.failure_count = 0
    /\ \E t \in Tasks : th[t].pc = "ok" /\ th[t].adm = "HALF_OPEN"

C7_RejectedWithoutEffect ==
    [][ \A t \in Tasks :
          ( /\ CBCalls(t)
            /\ cb.state = "OPEN"
            /\ now - cb.last_failure_time < Timeout )
          => (th'[t].pc = "raisedOpen" /\ cb' = cb) ]_vars

\* C7 witness: a call was rejected and the breaker is still OPEN within its
\* timeout
C7_Witness ==
    \E t \in Tasks :
        /\ th[t].pc = "raisedOpen"
        /\ cb.state = "OPEN"
        /\ now - cb.last_failure_time < Timeout

\* C8 as stated: while the state is HALF_OPEN and the operation admitted as
\* the probe has not recorded its outcome, protect admits no second
\* operation.
C8_AsClaimed ==
    [][ \A t \in Tasks :
          (CBCalls(t) /\ cb.state = "HALF_OPEN" /\ th'[t].pc = "inner")
          => ~ \E u \in Tasks \ {t} :
                  /\ th[u].pc = "inner"
                  /\ th[u].adm = "HALF_OPEN"
                  /\ ~th[u].stale ]_vars

\* C9 as stated: every admitted operation has recorded exactly one outcome
\* when protect exits: record_success when the inner operation returned,
\* record_failure on every other exit, cancellation included.
C9_AsClaimed ==
    \A t \in Tasks :
        /\ th[t].pc = "ok" => th[t].rec = "success"
        /\ th[t].pc \in {"err", "cancelled"} => th[t].rec = "failure"

(***************************************************************************)
(* Keys and the stored form of a value                                     *)
(***************************************************************************)
get_l1_key(key, cache_type) == cache_type \o <<":">> \o key

\* the prefix voice_bot is one character of the model
get_cache_key(key, cache_type) == <<"voice_bot", ":">> \o cache_type \o <<":">> \o key

WireKeys == { get_cache_key(e.key, e.cache_type) : e \in Entries }

\* str.startswith
startswith(s, prefix) ==
    Len(s) >= Len(prefix) /\ SubSeq(s, 1, Len(prefix)) = prefix

\* fnmatch.fnmatch, and the glob of the backend's KEYS, for patterns made of
\* literal characters, * and ?
RECURSIVE fnmatch(_, _)
fnmatch(name, pat) ==
    IF pat = <<>> THEN name = <<>>
    ELSE IF Head(pat) = "*"
    THEN fnmatch(name, Tail(pat)) \/ (name # <<>> /\ fnmatch(Tail(name), pat))
    ELSE /\ name # <<>>
         /\ Head(pat) = "?" \/ Head(pat) = Head(name)
         /\ fnmatch(Tail(name), Tail(pat))

match_pattern(key, pattern) == fnmatch(key, pattern)

\* The stored bytes of a value are <<codec, text>>, or
\* <<"compressed:", <<codec, text>>>>.  The text of the JSON codec is
\* written as the value json.loads reads from it: a dict keeps its content
\* but has str keys, a tuple is a list.
JsonTypes == {"str", "int", "float", "bool", "NoneType"}

json_type(type) ==
    CASE type = "dict_int_keys" -> "dict"
      [] type = "tuple" -> "list"
      [] OTHER -> type

json_dumps(value) == <<"json", <<json_type(value[1]), value[2], value[3]>>>>

pickle_dumps(value) == <<"pickle", value>>

\* len(data)
encoded_len(data) == data[2][3]

\* the tail of _serialize: compress if enabled and large enough
compress(data, enabled) ==
    IF enabled /\ encoded_len(data) > CompressionThreshold
    THEN <<"compressed:", data>>
    ELSE data

\* UniversalRedisCache._serialize under a compression_enabled setting
serialize_with(value, enabled) ==
    compress(IF value[1] \in JsonTypes THEN json_dumps(value) ELSE pickle_dumps(value),
             enabled)

serialize(value) == serialize_with(value, CompressionEnabled)

\* SimplifiedCache._serialize: JSON also for a list or dict all of whose
\* elements (for a dict: keys) are str, int, float, bool or None
simple_serialize_with(value, enabled) ==
    compress(IF value[1] \in JsonTypes \cup {"list", "dict", "dict_int_keys"}
             THEN json_dumps(value)
             ELSE pickle_dumps(value),
             enabled)

\* _deserialize of both caches: strip the marker and decompress, then JSON,
\* then pickle; bytes that are neither raise
deserialize(data) ==
    LET d == IF data[1] = "compressed:" THEN data[2] ELSE data IN
    IF d[1] \in {"json", "pickle"} THEN d[2] ELSE "DecodeError"

(***************************************************************************)
(* L1: cachetools.TTLCache(maxsize, ttl), least recently used entry first. *)
(***************************************************************************)
\* entries dropped one tick before their time
expire_early(c, t) == SelectSeq(c, LAMBDA e : t + 1 < e.expires)

expire(c, t) == SelectSeq(c, LAMBDA e : t < e.expires)

l1_has(c, k) == \E i \in 1..Len(c) : c[i].key = k

l1_entry(c, k) == c[CHOOSE i \in 1..Len(c) : c[i].key = k]

l1_without(c, k) == SelectSeq(c, LAMBDA e : e.key # k)

\* a get that never finds the entry
l1_get_missing(c, k, t) == None

\* TTLCache.get(key): the value, None on a miss
l1_get(c, k, t) ==
    IF l1_has(expire(c, t), k) THEN l1_entry(c, k).val ELSE None

\* a get that stores the miss it found
l1_after_get_caching(c, k, t) ==
    IF l1_has(expire(c, t), k) THEN Append(l1_without(c, k), l1_entry(c, k))
    ELSE Append(c, [key |-> k, val |-> None, expires |-> t + L1TTL])

\* TTLCache.get(key): a hit makes the entry the most recently used
l1_after_get(c, k, t) ==
    IF l1_has(expire(c, t), k) THEN Append(l1_without(c, k), l1_entry(c, k)) ELSE c

\* the n most recently used entries
keep_recent(c, n) ==
    IF Len(c) > n THEN SubSeq(c, Len(c) - n + 1, Len(c)) ELSE c

\* a write that stores nothing
l1_set_skipped(c, k, v, t) == expire(c, t)

\* TTLCache.__setitem__: expire, make room for a new key by dropping the
\* least recently used entries, store with a fresh expiry
l1_set(c, k, v, t) ==
    LET live == expire(c, t)
        e == [key |-> k, val |-> v, expires |-> t + L1TTL]
    IN  IF l1_has(live, k)
        THEN Append(l1_without(live, k), e)
        ELSE Append(keep_recent(live, L1MaxSize - 1), e)

\* `if l1_key in self.l1_cache: del self.l1_cache[l1_key]`
\* a delete that leaves L1 as it is
l1_delete_keeping(c, k, t) == c

l1_delete(c, k, t) == l1_without(c, k)

(***************************************************************************)
(* A task of SpecL2 and SpecCache.                                         *)
(* pc: idle; pending (a write-back task created, not yet run); cmd (a      *)
(* backend command sent inside protect, reply awaited); sleep (the backoff *)
(* sleep); keys, del (the commands of clear_pattern, reply awaited);       *)
(* compute (the compute function awaited); done, raised (the call          *)
(* returned, raised).                                                      *)
(* frame: the operation the task runs (l2: an L2 client operation called   *)
(* directly; get, set, delete of MultiLevelCache; wb: _cache_value);       *)
(* l2op: the L2 client operation in progress.                              *)
(* History: src, the tier a get's value came from; how, how the L2 lookup  *)
(* of a get ended; ncomp, the compute invocations of a get; cold, the      *)
(* entry was in neither tier when the get started; sentOpen, a command was *)
(* sent while is_open() would have said true; lost, a backend failure was  *)
(* not recorded on the breaker; rw, the set this task made last with       *)
(* nothing happening since; want, the computed value on record when a get  *)
(* without compute function started.                                       *)
(* stats: the increments the operation has made on the CacheStats          *)
(* counters.  ad: for a get without compute function that the task called  *)
(* right after its delete of the same entry returned, how the L2 part of   *)
(* that delete ended.                                                      *)
(***************************************************************************)
\* no set on record; no computed value on record
NoSet == [key |-> <<>>, val |-> None, expires |-> 0]

NoValue == [val |-> None, stored |-> FALSE, expires |-> 0]

\* history of a delete that ran alone: whether L2 held the entry when it was
\* called, and what it returned
NoDelete == [on |-> FALSE, had |-> FALSE, res |-> FALSE]

\* CacheStats as one operation sees it: the record_* calls the operation
\* has made on the shared counters since it was called (of the error
\* counters, error_types as MultiLevelCache.get records them)
ErrorTypes == {"l1_error", "l2_error", "compute_error"}

NoStats ==
    [l1_hits |-> 0, l1_misses |-> 0, l2_hits |-> 0, l2_misses |-> 0,
     compute_hits |-> 0, total_requests |-> 0, circuit_breaker_trips |-> 0,
     error_types |-> [x \in ErrorTypes |-> 0]]

record_l1_hit(s) == [s EXCEPT !.l1_hits = @ + 1, !.total_requests = @ + 1]

record_l1_miss(s) == [s EXCEPT !.l1_misses = @ + 1]

record_l2_hit(s) == [s EXCEPT !.l2_hits = @ + 1]

record_l2_miss(s) == [s EXCEPT !.l2_misses = @ + 1]

\* a record_compute that counts nothing
record_compute_skipped(s) == s

record_compute(s) == [s EXCEPT !.compute_hits = @ + 1]

\* a record_error that counts nothing
record_error_skipped(s, error_type) == s

record_circuit_breaker_trip(s) == [s EXCEPT !.circuit_breaker_trips = @ + 1]

\* _with_retry ends without a result: a connection error is re-raised from
\* inside the loop; any other exception of the last iteration ends the
\* loop, and the code after the loop records a breaker trip and raises
retries_failed(rec, kind) ==
    IF kind = "connection_error" THEN rec
    ELSE [rec EXCEPT !.stats = record_circuit_breaker_trip(rec.stats)]

record_error(s, error_type) == [s EXCEPT !.error_types[error_type] = @ + 1]

TaskInit ==
    [pc |-> "idle", frame |-> "none", l2op |-> "none",
     key |-> <<>>, cache_type |-> <<>>, val |-> None, compute |-> FALSE,
     attempt |-> 0, ncmd |-> 0, ret |-> None, exc |-> "none", pending |-> <<>>, total |-> 0,
     src |-> "none", how |-> "none", ncomp |-> 0, cold |-> FALSE, l1w |-> "none",
     sentOpen |-> FALSE, lost |-> FALSE, rw |-> NoSet, want |-> NoValue,
     dl |-> NoDelete, l1n |-> 0, stats |-> NoStats, ad |-> "none"]

L1Keys == { get_l1_key(e.key, e.cache_type) : e \in Entries }

\* a step of one task ends what the other tasks' latest set guarantees
Bystander(r) == [r EXCEPT !.rw = NoSet, !.dl = NoDelete]

Upd(t, rec) == [u \in DOMAIN th |-> IF u = t THEN rec ELSE Bystander(th[u])]

\* the record of a call that returned r
Done(rec, r) ==
    [rec EXCEPT !.pc = "done", !.ret = r, !.val = None, !.pending = <<>>, !.total = 0]

\* history cw after value v is written to L1 under k: a computed value on
\* record is stored now, any other value ends the record; a new key that
\* needs room ends the stored records of the other keys
cw_after_write(h, c, k, v, t) ==
    [x \in DOMAIN h |->
        IF x = k
        THEN IF h[x].val # None /\ h[x].val = v
             THEN [val |-> v, stored |-> TRUE, expires |-> t + L1TTL]
             ELSE NoValue
        ELSE IF h[x].stored /\ ~l1_has(expire(c, t), k)
                /\ Len(expire(c, t)) >= L1MaxSize
             THEN NoValue
             ELSE h[x]]

\* a get returns r: the computed value on record when it started still
\* counts if nothing ended the record meanwhile
DoneGet(rec, r, h) ==
    LET k == get_l1_key(rec.key, rec.cache_type) IN
    [Done(rec, r) EXCEPT !.want = IF h[k].val = rec.want.val THEN rec.want ELSE NoValue]

\* MultiLevelCache.get after both tiers missed: compute, or return None
after_miss_giving_up(compute) == "return"

after_miss(compute) == IF compute THEN "compute" ELSE "return"

\* the L2 client operation of task t ends with result r; rec is the task's
\* record, c and h are L1 and cw as the step has left them so far.  What
\* follows is the rest of the calling operation, up to its next suspension.
Finish(t, rec, r, c, h) ==
    LET k == get_l1_key(rec.key, rec.cache_type) IN
    CASE rec.frame = "get" ->
            IF r # None
            THEN \* L2 hit: populate L1, return the value
                 /\ l1' = l1_set(c, k, r, now)
                 /\ cw' = cw_after_write(h, c, k, r, now)
                 /\ th' = Upd(t, DoneGet([rec EXCEPT !.src = "l2", !.how = "hit",
                                                     !.stats = record_l2_hit(rec.stats)], r,
                                         cw_after_write(h, c, k, r, now)))
            ELSE IF after_miss(rec.compute) = "compute"
            THEN /\ th' = Upd(t, [rec EXCEPT !.pc = "compute", !.attempt = 0,
                                             !.ncomp = rec.ncomp + 1,
                                             !.stats = record_l2_miss(rec.stats)])
                 /\ l1' = c
                 /\ cw' = h
            ELSE /\ th' = Upd(t, DoneGet([rec EXCEPT !.stats = record_l2_miss(rec.stats)],
                                         None, h))
                 /\ l1' = c
                 /\ cw' = h
      [] rec.frame = "wb" ->
            /\ th' = Upd(t, TaskInit)
            /\ l1' = c
            /\ cw' = h
      [] OTHER ->
            /\ th' = Upd(t, Done(rec, r))
            /\ l1' = c
            /\ cw' = h

\* _with_retry from the top of iteration `attempt` to the next suspension:
\* protect admits (the command is sent), or rejects with
\* CircuitBreakerOpenError, which the loop handles like any other exception
with_retry(b, t, attempt) ==
    LET r == protect_enter(b, t) IN
    IF r.admitted THEN [pc |-> "cmd", cb |-> r.cb]
    ELSE IF attempt < MaxRetries THEN [pc |-> "sleep", cb |-> r.cb]
    ELSE [pc |-> "failed", cb |-> r.cb]

\* a loop that retries connection errors too
after_exception_retrying(kind, attempt) ==
    IF attempt < MaxRetries THEN "sleep" ELSE "failed"

\* _with_retry after the command of iteration `attempt` raised
after_exception(kind, attempt) ==
    IF kind = "connection_error" THEN "failed"
    ELSE IF attempt < MaxRetries THEN "sleep"
    ELSE "failed"

\* not_connected_result returning True for the operations that return a bool
not_connected_result_true(l2op) == IF l2op = "get" THEN None ELSE True

\* what get, set, delete, exists return when the client is not connected
not_connected_result(l2op) == IF l2op = "get" THEN None ELSE False

\* what their `except Exception` handlers return
failed_result(l2op) == IF l2op = "get" THEN None ELSE False

\* the backend's reply to the command of an operation, and its store after
backend_reply(store, l2op, w) ==
    CASE l2op = "get" -> store[w]
      [] l2op = "set" -> "OK"
      [] OTHER -> IF store[w] # None THEN 1 ELSE 0

backend_after(store, l2op, w, data) ==
    CASE l2op = "set" -> [store EXCEPT ![w] = data]
      [] l2op = "delete" -> [store EXCEPT ![w] = None]
      [] OTHER -> store

\* what the operation returns for the reply
l2_result(l2op, reply) ==
    CASE l2op = "get" ->
            IF reply = None THEN None
            ELSE IF deserialize(reply) = "DecodeError" THEN None
            ELSE deserialize(reply)
      [] l2op = "set" -> True
      [] OTHER -> IF reply > 0 THEN True ELSE False

\* history: how an answered command ended for the operation
reply_kind(l2op, reply) ==
    IF l2op = "get" /\ reply # None /\ deserialize(reply) = "DecodeError"
    THEN "decode_error"
    ELSE "answered"

\* iteration `attempt` of _with_retry for task t
Attempt(t, rec, attempt, c, h) ==
    LET e == with_retry(cb, now, attempt) IN
    /\ cb' = e.cb
    /\ IF e.pc = "failed"
       THEN Finish(t, retries_failed([rec EXCEPT !.how = "rejected", !.attempt = attempt],
                                     "rejected"),
                   failed_result(rec.l2op), c, h)
       ELSE /\ th' = Upd(t, [rec EXCEPT
                               !.pc = e.pc, !.attempt = attempt,
                               !.ncmd = IF e.pc = "cmd" THEN rec.ncmd + 1 ELSE rec.ncmd,
                               !.how = IF e.pc = "sleep" THEN "rejected" ELSE rec.how,
                               !.sentOpen = rec.sentOpen \/ (e.pc = "cmd" /\ is_open(e.cb, now))])
            /\ l1' = c
            /\ cw' = h

\* get, set, delete, exists of the L2 client, up to the first suspension
L2Enter(t, rec, c, h) ==
    IF ~connected
    THEN /\ cb' = cb
         /\ Finish(t, [rec EXCEPT !.how = "disconnected"], not_connected_result(rec.l2op), c, h)
    ELSE Attempt(t, rec, 0, c, h)

\* a task calls get, set, delete or exists of the L2 client
L2Call(t, l2op, e, v) ==
    /\ th[t].pc \in {"idle", "done"}
    /\ L2Enter(t, [TaskInit EXCEPT !.frame = "l2", !.l2op = l2op, !.key = e.key,
                                   !.cache_type = e.cache_type,
                                   !.val = IF l2op = "set" THEN v ELSE None], l1, cw)
    /\ UNCHANGED <<now, connected, l2, prev, streak>>

\* the backend answers a command sent inside protect: it succeeds, fails
\* with an application-level error or fails with a connection error
L2Respond(t) ==
    /\ th[t].pc = "cmd"
    /\ \E out \in {"ok", "error", "connection_error"} :
        /\ out # "ok" => cb.failure_count < MaxFailures
        /\ LET rec == th[t]
               w == get_cache_key(rec.key, rec.cache_type)
           IN  /\ cb' = IF out = "ok" THEN record_success(cb) ELSE record_failure(cb, now)
               /\ l2' = IF out = "ok"
                        THEN backend_after(l2, rec.l2op, w, serialize(rec.val))
                        ELSE l2
               /\ IF out = "ok"
                  THEN Finish(t, [rec EXCEPT !.how = reply_kind(rec.l2op, backend_reply(l2, rec.l2op, w))],
                              l2_result(rec.l2op, backend_reply(l2, rec.l2op, w)), l1, cw)
                  ELSE IF after_exception(out, rec.attempt) = "sleep"
                  THEN th' = Upd(t, [rec EXCEPT !.pc = "sleep", !.how = out]) /\ UNCHANGED <<l1, cw>>
                  ELSE Finish(t, retries_failed([rec EXCEPT !.how = out], out),
                              failed_result(rec.l2op), l1, cw)
    /\ UNCHANGED <<now, connected, prev, streak>>

\* the backoff sleep is over: the next iteration
L2Wake(t) ==
    /\ th[t].pc = "sleep"
    /\ Attempt(t, th[t], th[t].attempt + 1, l1, cw)
    /\ UNCHANGED <<now, connected, l2, prev, streak>>

\* KEYS full_pattern on the backend, as a list
SetToSeq(S) ==
    LET RECURSIVE build(_)
        build(R) == IF R = {} THEN <<>>
                    ELSE LET x == CHOOSE x \in R : TRUE IN <<x>> \o build(R \ {x})
    IN  build(S)

\* full_pattern = _get_cache_key(pattern, cache_type); the stored keys the
\* backend's glob matches against it
redis_keys(store, pattern, cache_type) ==
    SetToSeq({ w \in DOMAIN store :
                 /\ store[w] # None
                 /\ fnmatch(w, get_cache_key(pattern, cache_type)) })

Min(a, b) == IF a < b THEN a ELSE b

\* clear_pattern of the L2 client returns n: a call made by
\* MultiLevelCache.clear_pattern returns l1_cleared + n
ClearDone(rec, n) == Done(rec, rec.l1n + n)

\* clear_pattern of the L2 client up to its first suspension: KEYS is sent
\* with no retry loop and no protect around it
ClearEnter(t, rec) ==
    IF ~connected
    THEN th' = Upd(t, ClearDone(rec, 0))
    ELSE th' = Upd(t, [rec EXCEPT !.pc = "keys", !.sentOpen = is_open(cb, now)])

\* a task calls clear_pattern of the L2 client
L2ClearCall(t, pattern, cache_type) ==
    /\ th[t].pc \in {"idle", "done"}
    /\ ClearEnter(t, [TaskInit EXCEPT !.frame = "l2", !.l2op = "clear",
                                      !.key = pattern, !.cache_type = cache_type])
    /\ UNCHANGED <<cb, now, connected, l2, l1, prev, streak, cw>>

\* the backend answers KEYS or a DELETE batch of clear_pattern
L2ClearRespond(t) ==
    /\ th[t].pc \in {"keys", "del"}
    /\ \E out \in {"ok", "error"} :
        LET rec == th[t]
            batch == SubSeq(rec.pending, 1, Min(BatchSize, Len(rec.pending)))
            rest == SubSeq(rec.pending, Len(batch) + 1, Len(rec.pending))
            inBatch == { batch[i] : i \in 1..Len(batch) }
            deleted == Cardinality({ w \in inBatch : l2[w] # None })
            keys == redis_keys(l2, rec.key, rec.cache_type)
            sending(r) == [r EXCEPT !.pc = "del", !.sentOpen = r.sentOpen \/ is_open(cb, now)]
        IN  IF out = "error"
            THEN /\ th' = Upd(t, ClearDone([rec EXCEPT !.lost = TRUE], 0))
                 /\ l2' = l2
            ELSE IF rec.pc = "keys"
            THEN /\ l2' = l2
                 /\ IF keys = <<>>
                    THEN th' = Upd(t, ClearDone(rec, 0))
                    ELSE th' = Upd(t, sending([rec EXCEPT !.pending = keys]))
            ELSE /\ l2' = [w \in DOMAIN l2 |-> IF w \in inBatch THEN None ELSE l2[w]]
                 /\ IF rest = <<>>
                    THEN th' = Upd(t, ClearDone(rec, rec.total + deleted))
                    ELSE th' = Upd(t, sending([rec EXCEPT !.pending = rest,
                                                          !.total = rec.total + deleted]))
    /\ UNCHANGED <<cb, now, connected, l1, prev, streak, cw>>

\* time passes; L1 entries whose time has come are no longer served
Tick ==
    /\ now < MaxTime
    /\ now' = now + 1
    /\ l1' = expire(l1, now + 1)
    /\ th' = [u \in DOMAIN th |->
                IF th[u].rw.val # None /\ ~(now + 1 < th[u].rw.expires)
                THEN [th[u] EXCEPT !.rw = NoSet] ELSE th[u]]
    /\ cw' = [x \in DOMAIN cw |->
                IF cw[x].stored /\ ~(now + 1 < cw[x].expires) THEN NoValue ELSE cw[x]]
    /\ UNCHANGED <<cb, connected, l2, prev, streak>>

(***************************************************************************)
(* SpecL2: tasks calling the data operations of the L2 client.             *)
(***************************************************************************)
L2Init ==
    /\ cb = CircuitBreakerInit
    /\ now = 0
    /\ th = [t \in Tasks |-> TaskInit]
    /\ connected \in BOOLEAN
    /\ l2 = [w \in WireKeys |-> None]
    /\ l1 = <<>>
    /\ prev = "CLOSED"
    /\ streak = 0
    /\ cw = [k \in L1Keys |-> NoValue]

\* the inputs of SpecL2: one entry, one value, every pattern
L2Entries == { e \in Entries : e.cache_type = Default }

L2Next ==
    \/ \E t \in Tasks, l2op \in {"get", "set", "delete", "exists"},
          e \in L2Entries : L2Call(t, l2op, e, V1)
    \/ \E t \in Tasks, p \in Patterns : L2ClearCall(t, p, Default)
    \/ \E t \in Tasks : L2Respond(t)
    \/ \E t \in Tasks : L2Wake(t)
    \/ \E t \in Tasks : L2ClearRespond(t)
    \/ Tick

SpecL2 == L2Init /\ [][L2Next]_vars

(***************************************************************************)
(* SpecRetry: tasks calling get and set of the L2 client, with a backend   *)
(* that answers every command and backoff sleeps that end.                 *)
(***************************************************************************)
RetryNext ==
    \/ \E t \in Tasks, l2op \in {"get", "set"}, e \in L2Entries : L2Call(t, l2op, e, V1)
    \/ \E t \in Tasks : L2Respond(t)
    \/ \E t \in Tasks : L2Wake(t)
    \/ Tick

SpecRetry ==
    /\ L2Init
    /\ [][RetryNext]_vars
    /\ \A t \in Tasks : WF_vars(L2Respond(t)) /\ WF_vars(L2Wake(t))

RetryOps == {"get", "set", "delete", "exists"}

\* the iterations and commands of an operation stay within max_retries + 1;
\* only an application-level failure or a rejection by the breaker is
\* followed by another iteration, and such an operation gives up only at the
\* last iteration
RetryBounded ==
    \A t \in Tasks :
        th[t].l2op \in RetryOps =>
            /\ th[t].attempt <= MaxRetries
            /\ th[t].ncmd <= th[t].attempt + 1
            /\ th[t].pc = "sleep" =>
                  (th[t].how \in {"error", "rejected"} /\ th[t].attempt < MaxRetries)
            /\ (th[t].pc = "cmd" /\ th[t].attempt > 0) => th[t].how \in {"error", "rejected"}
            /\ (th[t].pc = "done" /\ th[t].how \in {"error", "rejected"})
                  => th[t].attempt = MaxRetries

\* C11: an operation run through _with_retry sends at most max_retries + 1
\* commands; a connection error ends it at once, an application-level
\* failure is followed by another iteration until the limit, and the
\* operation always ends (checked under SpecRetry).
C11_RetryTerminates ==
    /\ []RetryBounded
    /\ \A t \in Tasks : (th[t].pc \in {"cmd", "sleep"}) ~> (th[t].pc = "done")

\* an operation ended by a connection error at its first command, and one
\* that gave up after max_retries + 1 failed commands
C11_Witness ==
    /\ \E t \in Tasks : /\ th[t].pc = "done"
                         /\ th[t].l2op \in RetryOps
                         /\ th[t].how = "connection_error"
                         /\ th[t].ncmd = 1
    /\ \E t \in Tasks : /\ th[t].pc = "done"
                         /\ th[t].l2op \in RetryOps
                         /\ th[t].how = "error"
                         /\ th[t].ncmd = MaxRetries + 1

(***************************************************************************)
(* SpecClient: one task calling get, set, delete and exists of the L2      *)
(* client and one calling clear_pattern, connected or not, over a backend  *)
(* that may already hold bytes no decoder accepts.                         *)
(***************************************************************************)
\* bytes that are neither the marker, JSON nor a pickle
Garbage == <<"garbage">>

ClientInit ==
    /\ cb = CircuitBreakerInit
    /\ now = 0
    /\ th = [t \in Tasks |-> TaskInit]
    /\ connected \in BOOLEAN
    /\ \E data \in {None, Garbage} : l2 = [w \in WireKeys |-> data]
    /\ l1 = <<>>
    /\ prev = "CLOSED"
    /\ streak = 0
    /\ cw = [k \in L1Keys |-> NoValue]

ClientNext ==
    \/ \E l2op \in {"get", "set", "delete", "exists"}, e \in L2Entries :
          L2Call("t1", l2op, e, V1)
    \/ \E p \in Patterns : L2ClearCall("t2", p, Default)
    \/ L2Respond("t1")
    \/ L2Wake("t1")
    \/ L2ClearRespond("t2")
    \/ Tick

SpecClient == ClientInit /\ [][ClientNext]_vars

\* what the claim says an operation returns when the client is not connected
C12Returned(rec) ==
    CASE rec.l2op = "clear" -> rec.ret = 0
      [] rec.l2op = "get" -> rec.ret = None
      [] OTHER -> rec.ret = False

\* C12: when the L2 client is not connected, get returns None, set, delete
\* and exists return False and clear_pattern returns 0, at once: nothing is
\* raised, no backend command is sent, and the breaker and the backend stay
\* as they are.
C12_DisconnectedNoOp ==
    /\ [](~connected =>
            \A t \in Tasks :
                th[t].frame = "l2" =>
                    /\ th[t].pc = "done"
                    /\ th[t].exc = "none"
                    /\ th[t].ncmd = 0
                    /\ ~th[t].sentOpen
                    /\ C12Returned(th[t]))
    /\ [][~connected => (cb' = cb /\ l2' = l2)]_vars

\* not connected: a set that returned False and a clear_pattern that
\* returned 0
C12_Witness ==
    /\ ~connected
    /\ th["t1"].pc = "done" /\ th["t1"].l2op = "set" /\ th["t1"].ret = False
    /\ th["t2"].pc = "done" /\ th["t2"].l2op = "clear" /\ th["t2"].ret = 0

\* C16 as stated: when the bytes the backend holds for a key cannot be
\* decoded, get of the L2 client raises; the failure is not turned into a
\* result.
C16_AsClaimed ==
    \A t \in Tasks : th[t].how = "decode_error" => th[t].pc = "raised"

\* C10 as stated: no data operation of the L2 client sends a backend command
\* while the breaker is OPEN within its timeout, and every backend failure
\* of a data operation is recorded on the breaker.
C10_AsClaimed == \A t \in Tasks : ~th[t].sentOpen /\ ~th[t].lost

(***************************************************************************)
(* SpecCache: tasks calling get, set and delete of MultiLevelCache, and    *)
(* the write-back tasks that get creates.                                  *)
(***************************************************************************)
WBs == {"w1"}

\* SpecCache has one calling task, SpecStampede has two
Callers == {"t1"}

CacheInit ==
    /\ cb = CircuitBreakerInit
    /\ now = 0
    /\ th = [t \in Callers \cup WBs |-> TaskInit]
    /\ connected \in BOOLEAN
    /\ l2 = [w \in WireKeys |-> None]
    /\ l1 = <<>>
    /\ prev = "CLOSED"
    /\ streak = 0
    /\ cw = [k \in L1Keys |-> NoValue]

Returned(t) == th[t].pc \in {"idle", "done", "raised"}

\* get(key, cache_type, compute_func) up to its first suspension or return
GetCall(t, e, compute) ==
    /\ Returned(t)
    /\ LET k == get_l1_key(e.key, e.cache_type)
           value == l1_get(l1, k, now)
           c == l1_after_get(l1, k, now)
           rec == [TaskInit EXCEPT
                     !.frame = "get", !.l2op = "get", !.key = e.key,
                     !.cache_type = e.cache_type, !.compute = compute,
                     !.cold = value = None /\ l2[get_cache_key(e.key, e.cache_type)] = None,
                     !.rw = IF ~compute /\ th[t].rw.key = k THEN th[t].rw ELSE NoSet,
                     !.dl = IF /\ ~compute
                               /\ th[t].frame = "delete"
                               /\ th[t].pc = "done"
                               /\ get_l1_key(th[t].key, th[t].cache_type) = k
                            THEN [th[t].dl EXCEPT !.res = (th[t].ret = True)]
                            ELSE NoDelete,
                     !.want = IF compute THEN NoValue ELSE cw[k],
                     !.ad = IF /\ ~compute
                               /\ th[t].frame = "delete"
                               /\ th[t].pc = "done"
                               /\ get_l1_key(th[t].key, th[t].cache_type) = k
                            THEN th[t].how ELSE "none"]
       IN  IF value # None
           THEN /\ th' = Upd(t, DoneGet([rec EXCEPT !.src = "l1",
                                                     !.stats = record_l1_hit(rec.stats)],
                                         value, cw))
                /\ l1' = c
                /\ UNCHANGED <<cb, cw>>
           ELSE L2Enter(t, [rec EXCEPT !.stats = record_l1_miss(rec.stats)], c, cw)
    /\ UNCHANGED <<now, connected, l2, prev, streak>>

\* set(key, value, cache_type) up to its first suspension or return.  The
\* L1 write is inside try/except: if it raises (TTLCache raises ValueError
\* when maxsize is 0, any write may raise MemoryError) the error is logged
\* and set goes on to the L2 client
Set(t, e, v, l1raises) ==
    /\ Returned(t)
    /\ LET k == get_l1_key(e.key, e.cache_type)
           rec == [TaskInit EXCEPT
                     !.frame = "set", !.l2op = "set", !.key = e.key,
                     !.cache_type = e.cache_type, !.val = v,
                     !.l1w = IF l1raises THEN "raised" ELSE "ok",
                     !.rw = IF l1raises THEN NoSet
                            ELSE [key |-> k, val |-> v, expires |-> now + L1TTL]]
       IN  IF l1raises
           THEN L2Enter(t, rec, l1, cw)
           ELSE L2Enter(t, rec, l1_set(l1, k, v, now), [cw EXCEPT ![k] = NoValue])
    /\ UNCHANGED <<now, connected, l2, prev, streak>>

\* set with an L1 that takes the write
SetCall(t, e, v) == Set(t, e, v, FALSE)

\* delete(key, cache_type) up to its first suspension or return
DeleteCall(t, e) ==
    /\ Returned(t)
    /\ LET k == get_l1_key(e.key, e.cache_type)
           rec == [TaskInit EXCEPT
                     !.frame = "delete", !.l2op = "delete", !.key = e.key,
                     !.cache_type = e.cache_type,
                     !.dl = [on |-> \A w \in WBs \cap DOMAIN th : th[w].pc = "idle",
                             had |-> l2[get_cache_key(e.key, e.cache_type)] # None,
                             res |-> FALSE]]
       IN  L2Enter(t, rec, l1_delete(l1, k, now), [cw EXCEPT ![k] = NoValue])
    /\ UNCHANGED <<now, connected, l2, prev, streak>>

\* the compute function returns v: get creates the write-back task and
\* returns v without waiting for it
ComputeReturn(t, v) ==
    /\ th[t].pc = "compute"
    /\ \E w \in WBs :
        /\ th[w].pc = "idle"
        /\ LET rec == th[t]
               k == get_l1_key(rec.key, rec.cache_type)
               h == [cw EXCEPT ![k] = IF rec.cold
                                      THEN [val |-> v, stored |-> FALSE, expires |-> 0]
                                      ELSE NoValue]
           IN  /\ th' = [u \in DOMAIN th |->
                           IF u = t THEN DoneGet([rec EXCEPT !.src = "compute",
                                                             !.stats = record_compute(rec.stats)],
                                                 v, h)
                           ELSE IF u = w
                           THEN [TaskInit EXCEPT !.pc = "pending", !.frame = "wb",
                                                 !.l2op = "set", !.key = rec.key,
                                                 !.cache_type = rec.cache_type, !.val = v]
                           ELSE Bystander(th[u])]
               /\ cw' = h
    /\ UNCHANGED <<cb, now, connected, l2, l1, prev, streak>>

\* the compute function raises: get raises the same
ComputeRaise(t) ==
    /\ th[t].pc = "compute"
    /\ th' = Upd(t, [Done(th[t], None) EXCEPT
                        !.pc = "raised", !.exc = "compute_error",
                        !.stats = record_error(th[t].stats, "compute_error")])
    /\ UNCHANGED <<cb, now, connected, l2, l1, prev, streak, cw>>

\* the event loop runs a write-back task: _cache_value writes L1, then
\* calls set of the L2 client
WBStart(w) ==
    /\ th[w].pc = "pending"
    /\ LET rec == th[w]
           k == get_l1_key(rec.key, rec.cache_type)
       IN  L2Enter(w, rec, l1_set(l1, k, rec.val, now),
                   cw_after_write(cw, l1, k, rec.val, now))
    /\ UNCHANGED <<now, connected, l2, prev, streak>>

\* the inputs of SpecCache
CacheEntries == { e \in Entries : e.cache_type = Default }

CacheNext ==
    \/ \E t \in Callers, e \in CacheEntries, compute \in BOOLEAN : GetCall(t, e, compute)
    \/ \E t \in Callers, e \in CacheEntries, v \in Values : SetCall(t, e, v)
    \/ \E t \in Callers, e \in CacheEntries : DeleteCall(t, e)
    \/ \E t \in Callers, v \in Values : ComputeReturn(t, v)
    \/ \E t \in Callers : ComputeRaise(t)
    \/ \E w \in WBs : WBStart(w)
    \/ \E t \in Callers \cup WBs : L2Respond(t)
    \/ \E t \in Callers \cup WBs : L2Wake(t)
    \/ Tick

SpecCache == CacheInit /\ [][CacheNext]_vars

(***************************************************************************)
(* SpecSet: one task calling set and get, with an L1 whose writes may      *)
(* raise.                                                                  *)
(***************************************************************************)
SetNext ==
    \/ \E t \in Callers, e \in CacheEntries, v \in Values, l1raises \in BOOLEAN :
          Set(t, e, v, l1raises)
    \/ \E t \in Callers, e \in CacheEntries : GetCall(t, e, FALSE)
    \/ \E t \in Callers : L2Respond(t)
    \/ \E t \in Callers : L2Wake(t)
    \/ Tick

SpecSet == CacheInit /\ [][SetNext]_vars

(***************************************************************************)
(* SpecTTL: one task calling set and get for entries of the categories     *)
(* default and business_lookup, with a business_lookup TTL configured      *)
(* below the L1 TTL (CACHE_BUSINESS_TTL < CACHE_L1_TTL).                   *)
(***************************************************************************)
BusinessLookupTTL == 1   \* business_lookup_ttl, in clock ticks
KnowledgeBaseTTL == 3    \* knowledge_base_ttl, in clock ticks
KnowledgeBase == <<"n">>

\* MultiLevelCache._get_ttl_for_type: ttl_map.get(cache_type, l1_default_ttl)
get_ttl_for_type(cache_type) ==
    IF cache_type = BusinessLookup THEN BusinessLookupTTL
    ELSE IF cache_type = KnowledgeBase THEN KnowledgeBaseTTL
    ELSE L1TTL

TTLNext ==
    \/ \E t \in Callers, e \in Entries, v \in Values, l1raises \in BOOLEAN :
          Set(t, e, v, l1raises)
    \/ \E t \in Callers, e \in Entries : GetCall(t, e, FALSE)
    \/ \E t \in Callers : L2Respond(t)
    \/ \E t \in Callers : L2Wake(t)
    \/ Tick

SpecTTL == CacheInit /\ [][TTLNext]_vars

\* the moment an L1 entry was stored: TTLCache gives every entry the one
\* lifetime it was constructed with
written_at(e) == e.expires - L1TTL

\* C24 (as stated): every entry L1 still serves is younger than
\* min(TTL of its category, L1 TTL).
C24_AsClaimed ==
    \A e \in Entries :
        LET k == get_l1_key(e.key, e.cache_type)
        IN  l1_has(expire(l1, now), k) =>
                now < written_at(l1_entry(l1, k))
                        + Min(get_ttl_for_type(e.cache_type), L1TTL)

(***************************************************************************)
(* SpecClear: one task calling set and clear_pattern with categories one   *)
(* of which contains ':' and one of which is a wildcard.                   *)
(***************************************************************************)
CatA == <<"a">>
CatAB == <<"a", ":", "b">>
CatStar == <<"*">>

\* the entries the task stores: no two of them share an L1 key or a backend
\* key
ClearEntries == { [key |-> <<"k">>, cache_type |-> CatA],
                  [key |-> <<"j">>, cache_type |-> CatA],
                  [key |-> <<"k">>, cache_type |-> CatAB] }

\* MultiLevelCache.clear_pattern up to its first suspension or return: the
\* L1 keys that start with "<cache_type>:" and whose rest matches the
\* pattern are deleted and counted, then clear_pattern of the L2 client runs
ClearCall(t, pattern, cache_type) ==
    /\ Returned(t)
    /\ LET prefix == cache_type \o <<":">>
           chosen(key) ==
               /\ startswith(key, prefix)
               /\ match_pattern(SubSeq(key, Len(prefix) + 1, Len(key)), pattern)
           c == SelectSeq(l1, LAMBDA x : ~chosen(x.key))
           rec == [TaskInit EXCEPT
                     !.frame = "clear", !.l2op = "clear", !.key = pattern,
                     !.cache_type = cache_type, !.l1n = Len(l1) - Len(c)]
       IN  /\ ClearEnter(t, rec)
           /\ l1' = c
           /\ cw' = [k \in DOMAIN cw |-> IF chosen(k) THEN NoValue ELSE cw[k]]
    /\ UNCHANGED <<cb, now, connected, l2, prev, streak>>

ClearInit ==
    /\ cb = CircuitBreakerInit
    /\ now = 0
    /\ th = [t \in Callers |-> TaskInit]
    /\ connected \in BOOLEAN
    /\ l2 = [w \in { get_cache_key(e.key, e.cache_type) : e \in ClearEntries } |-> None]
    /\ l1 = <<>>
    /\ prev = "CLOSED"
    /\ streak = 0
    /\ cw = [k \in { get_l1_key(e.key, e.cache_type) : e \in ClearEntries } |-> NoValue]

ClearNext ==
    \/ \E t \in Callers, e \in ClearEntries : SetCall(t, e, V1)
    \/ \E t \in Callers, p \in Patterns, cache_type \in {CatA, CatAB, CatStar} :
          ClearCall(t, p, cache_type)
    \/ \E t \in Callers : L2Respond(t)
    \/ \E t \in Callers : L2Wake(t)
    \/ \E t \in Callers : L2ClearRespond(t)
    \/ Tick

SpecClear == ClearInit /\ [][ClearNext]_vars

(***************************************************************************)
(* SpecKeys: one task calling set and get for entries whose key or         *)
(* category contains the separator ":".  Each entry is only ever set to    *)
(* its own value.                                                          *)
(***************************************************************************)
KeyBK == <<"b", ":", "k">>

KeysEntries == { [key |-> KeyBK, cache_type |-> CatA],
                 [key |-> <<"k">>, cache_type |-> CatAB],
                 [key |-> <<"k">>, cache_type |-> CatA] }

\* the value the task stores under an entry
value_of(e) == IF e.cache_type = CatAB THEN V2 ELSE V1

KeysInit ==
    /\ cb = CircuitBreakerInit
    /\ now = 0
    /\ th = [t \in Callers |-> TaskInit]
    /\ connected \in BOOLEAN
    /\ l2 = [w \in { get_cache_key(e.key, e.cache_type) : e \in KeysEntries } |-> None]
    /\ l1 = <<>>
    /\ prev = "CLOSED"
    /\ streak = 0
    /\ cw = [k \in { get_l1_key(e.key, e.cache_type) : e \in KeysEntries } |-> NoValue]

KeysNext ==
    \/ \E t \in Callers, e \in KeysEntries : SetCall(t, e, value_of(e))
    \/ \E t \in Callers, e \in KeysEntries : GetCall(t, e, FALSE)
    \/ \E t \in Callers : L2Respond(t)
    \/ \E t \in Callers : L2Wake(t)
    \/ Tick

SpecKeys == KeysInit /\ [][KeysNext]_vars

(***************************************************************************)
(* SpecWarmKeys: one task that warms the knowledge-base query (B, Q) and   *)
(* the business lookup of phone P as CacheWarmer does, and reads them      *)
(* through get_knowledge_base and get_business_lookup.  The variable       *)
(* streak, which the cache's actions leave alone, holds hash(Q): Python    *)
(* fixes the hash of a str when the process starts.  The run is short: no  *)
(* time passes, so no entry expires and an open breaker stays open.        *)
(***************************************************************************)
BusinessId == <<"B">>
Query == <<"q">>
Phone == <<"P">>

\* the values hash(query) may have in a process
HashValues == {-12, 7}

hash_of_query == streak

Digits == <<"0", "1", "2", "3", "4", "5", "6", "7", "8", "9">>

RECURSIVE str_nat(_)
str_nat(n) ==
    IF n < 10 THEN <<Digits[n + 1]>>
    ELSE str_nat(n \div 10) \o <<Digits[(n % 10) + 1]>>

\* str(n) of an int, as an f-string formats it
str_int(n) == IF n < 0 THEN <<"-">> \o str_nat(-n) ELSE str_nat(n)

\* hashlib.md5(query.encode()).hexdigest(): 32 hexadecimal digits
md5_hexdigest(query) ==
    CASE query = <<"q">> ->
    <<"7", "6", "9", "4", "f", "4", "a", "6", "6", "3", "1", "6", "e", "5", "3", "c",
      "8", "c", "d", "d", "9", "d", "9", "9", "5", "4", "b", "d", "6", "1", "1", "d">>

\* the key of warm_knowledge_query for hash(query) = h
warm_knowledge_key(business_id, h) ==
    <<"kb", ":">> \o business_id \o <<":">> \o str_int(h)

\* the key of get_knowledge_base
get_knowledge_base_key(business_id, query) ==
    <<"kb", ":">> \o business_id \o <<":">> \o md5_hexdigest(query)

\* the key of warm_business and of get_business_lookup
business_key(phone) == <<"business", ":">> \o phone

warm_knowledge_entry(h) ==
    [key |-> warm_knowledge_key(BusinessId, h), cache_type |-> KnowledgeBase]

get_knowledge_base_entry ==
    [key |-> get_knowledge_base_key(BusinessId, Query), cache_type |-> KnowledgeBase]

business_entry == [key |-> business_key(Phone), cache_type |-> BusinessLookup]

WarmKeysEntries ==
    { warm_knowledge_entry(h) : h \in HashValues }
        \cup {get_knowledge_base_entry, business_entry}

WarmKeysInit ==
    /\ cb = CircuitBreakerInit
    /\ now = 0
    /\ th = [t \in Callers \cup WBs |-> TaskInit]
    /\ connected \in BOOLEAN
    /\ l2 = [w \in { get_cache_key(e.key, e.cache_type) : e \in WarmKeysEntries } |-> None]
    /\ l1 = <<>>
    /\ prev = "CLOSED"
    /\ streak \in HashValues
    /\ cw = [k \in { get_l1_key(e.key, e.cache_type) : e \in WarmKeysEntries } |-> NoValue]

\* the first get of a warming task: is the entry cached already
WarmCheck(t, e) == GetCall(t, e, FALSE)

\* the check returned nothing (or a falsy value): the second get of the
\* warming task, for the same key, with the compute function
WarmCompute(t, e) ==
    /\ th[t].pc = "done" /\ th[t].frame = "get" /\ ~th[t].compute
    /\ th[t].key = e.key /\ th[t].cache_type = e.cache_type
    /\ th[t].ret = None
    /\ GetCall(t, e, TRUE)

\* get_knowledge_base(B, Q, compute_func)
GetKnowledgeBase(t) == GetCall(t, get_knowledge_base_entry, TRUE)

\* get_business_lookup(P, compute_func)
GetBusinessLookup(t) == GetCall(t, business_entry, TRUE)

WarmKeysNext ==
    \/ \E t \in Callers : WarmCheck(t, warm_knowledge_entry(hash_of_query))
    \/ \E t \in Callers : WarmCompute(t, warm_knowledge_entry(hash_of_query))
    \/ \E t \in Callers : WarmCheck(t, business_entry)
    \/ \E t \in Callers : WarmCompute(t, business_entry)
    \/ \E t \in Callers : GetKnowledgeBase(t)
    \/ \E t \in Callers : GetBusinessLookup(t)
    \/ \E t \in Callers : ComputeReturn(t, V1)
    \/ \E t \in Callers : ComputeRaise(t)
    \/ \E w \in WBs : WBStart(w)
    \/ \E t \in Callers \cup WBs : L2Respond(t)
    \/ \E t \in Callers \cup WBs : L2Wake(t)

SpecWarmKeys == WarmKeysInit /\ [][WarmKeysNext]_vars

(***************************************************************************)
(* SpecDecorator: one task calling a coroutine function decorated with     *)
(* cache_result.  The variable prev, which the cache's actions leave       *)
(* alone, holds the decorator's argument skip_cache_on_error.  ncomp       *)
(* counts the invocations of the wrapped function by one call.             *)
(***************************************************************************)
skip_cache_on_error == prev

DecoratorInit ==
    /\ cb = CircuitBreakerInit
    /\ now = 0
    /\ th = [t \in Callers \cup WBs |-> TaskInit]
    /\ connected \in BOOLEAN
    /\ l2 = [w \in WireKeys |-> None]
    /\ l1 = <<>>
    /\ prev \in BOOLEAN
    /\ streak = 0
    /\ cw = [k \in L1Keys |-> NoValue]

\* async_wrapper up to its first suspension or return: without a cache
\* instance the function is awaited directly, otherwise cache.get is
\* awaited with a compute function that awaits the function
DecoratedCall(t, e, available) ==
    IF available
    THEN GetCall(t, e, TRUE)
    ELSE /\ Returned(t)
         /\ th' = Upd(t, [TaskInit EXCEPT !.pc = "fallback", !.frame = "direct",
                                          !.key = e.key, !.cache_type = e.cache_type,
                                          !.ncomp = 1])
         /\ UNCHANGED <<cb, now, connected, l2, l1, prev, streak, cw>>

\* the handler of async_wrapper for an exception out of cache.get
on_cache_error(rec, skip) ==
    IF skip THEN [rec EXCEPT !.pc = "fallback", !.ncomp = rec.ncomp + 1]
    ELSE rec

\* the function raises inside cache.get: get records compute_error and
\* raises the same, and the wrapper's handler runs
DecoratedComputeRaise(t) ==
    /\ th[t].pc = "compute"
    /\ th' = Upd(t, on_cache_error(
                        [Done(th[t], None) EXCEPT
                            !.pc = "raised", !.exc = "compute_error",
                            !.stats = record_error(th[t].stats, "compute_error")],
                        skip_cache_on_error))
    /\ UNCHANGED <<cb, now, connected, l2, l1, prev, streak, cw>>

\* the function, awaited by the wrapper itself, returns v
FallbackReturn(t, v) ==
    /\ th[t].pc = "fallback"
    /\ th' = Upd(t, Done(th[t], v))
    /\ UNCHANGED <<cb, now, connected, l2, l1, prev, streak, cw>>

\* the function, awaited by the wrapper itself, raises
FallbackRaise(t) ==
    /\ th[t].pc = "fallback"
    /\ th' = Upd(t, [Done(th[t], None) EXCEPT !.pc = "raised", !.exc = "function_error"])
    /\ UNCHANGED <<cb, now, connected, l2, l1, prev, streak, cw>>

DecoratorNext ==
    \/ \E t \in Callers, e \in CacheEntries, available \in BOOLEAN :
          DecoratedCall(t, e, available)
    \/ \E t \in Callers, v \in Values : ComputeReturn(t, v)
    \/ \E t \in Callers : DecoratedComputeRaise(t)
    \/ \E t \in Callers, v \in Values : FallbackReturn(t, v)
    \/ \E t \in Callers : FallbackRaise(t)
    \/ \E w \in WBs : WBStart(w)
    \/ \E t \in Callers \cup WBs : L2Respond(t)
    \/ \E t \in Callers \cup WBs : L2Wake(t)
    \/ Tick

SpecDecorator == DecoratorInit /\ [][DecoratorNext]_vars

(***************************************************************************)
(* SpecCodec: _serialize then _deserialize of either cache, applied to a   *)
(* value of any kind and encoded size, with compression enabled or not.    *)
(***************************************************************************)
\* kinds of cacheable values: "list" and "dict" hold str, int, float, bool
\* or None only, with str keys; "dict_int_keys" is a dict with int keys;
\* "object" is any other picklable object
CodecTypes == JsonTypes \cup {"list", "dict", "dict_int_keys", "tuple", "object"}

CodecValues == { <<type, "x", n>> : type \in CodecTypes, n \in 0..MaxLen }

CodecImpls == {"UniversalRedisCache", "SimplifiedCache"}

CodecInit ==
    /\ cb = CircuitBreakerInit
    /\ now = 0
    /\ connected = FALSE
    /\ l2 = <<>>
    /\ l1 = <<>>
    /\ prev = "CLOSED"
    /\ streak = 0
    /\ cw = <<>>
    /\ \E value \in CodecValues, enabled \in BOOLEAN, impl \in CodecImpls :
          th = [pc |-> "value", impl |-> impl, enabled |-> enabled,
                value |-> value, data |-> <<>>, out |-> None]

\* data = self._serialize(value)
Serialize ==
    /\ th.pc = "value"
    /\ th' = [th EXCEPT
                !.pc = "data",
                !.data = IF th.impl = "SimplifiedCache"
                         THEN simple_serialize_with(th.value, th.enabled)
                         ELSE serialize_with(th.value, th.enabled)]
    /\ UNCHANGED <<cb, now, connected, l2, l1, prev, streak, cw>>

\* self._deserialize(data)
Deserialize ==
    /\ th.pc = "data"
    /\ th' = [th EXCEPT !.pc = "out", !.out = deserialize(th.data)]
    /\ UNCHANGED <<cb, now, connected, l2, l1, prev, streak, cw>>

CodecNext == Serialize \/ Deserialize

SpecCodec == CodecInit /\ [][CodecNext]_vars

(***************************************************************************)
(* SpecStampede: two tasks calling get with a compute function.            *)
(***************************************************************************)
StampedeInit ==
    /\ cb = CircuitBreakerInit
    /\ now = 0
    /\ th = [t \in Tasks \cup WBs |-> TaskInit]
    /\ connected \in BOOLEAN
    /\ l2 = [w \in WireKeys |-> None]
    /\ l1 = <<>>
    /\ prev = "CLOSED"
    /\ streak = 0
    /\ cw = [k \in L1Keys |-> NoValue]

StampedeNext ==
    \/ \E t \in Tasks, e \in CacheEntries : GetCall(t, e, TRUE)
    \/ \E t \in Tasks : ComputeReturn(t, V1)
    \/ \E t \in Tasks : ComputeRaise(t)
    \/ \E w \in WBs : WBStart(w)
    \/ \E t \in Tasks \cup WBs : L2Respond(t)
    \/ \E t \in Tasks \cup WBs : L2Wake(t)
    \/ Tick

SpecStampede == StampedeInit /\ [][StampedeNext]_vars

(***************************************************************************)
(* SpecWarm: overlapping calls of CacheWarmer.warm_custom_data on a cache  *)
(* whose L2 client is not connected, so that get and set of the cache      *)
(* return without suspending; the compute functions are coroutine          *)
(* functions.  The variable th holds the warmer: its asyncio tasks, its    *)
(* calls, warming_tasks, and the write-back tasks get has created.         *)
(***************************************************************************)
\* a cached value that is falsy
Zero == <<"int", "0", 1>>

\* bool(value)
truthy(value) == value \notin {None, False, Zero}

KeyK == <<"k">>
KeyJ == <<"j">>
WarmKeys == {KeyK, KeyJ}

\* the key lists of the calls: one key, two keys, one key listed twice
WarmSpecs == {<<KeyK>>, <<KeyK, KeyJ>>, <<KeyK, KeyK>>}

WarmCalls == {"c1", "c2"}
WarmTaskIds == 1..MaxWarmTasks

\* out is history: how the task ended ("skipped", "cached", "failed")
FreeTask == [pc |-> "free", key |-> <<>>, ttl |-> FALSE, hit |-> FALSE, out |-> "none"]

\* a call that is not in progress; res is history: how the tasks of its
\* last run ended
IdleCall(res) == [pc |-> "idle", keys |-> <<>>, tasks |-> {}, res |-> res]

WarmInit ==
    /\ cb = CircuitBreakerInit
    /\ now = 0
    /\ connected = FALSE
    /\ l2 = <<>>
    /\ l1 = <<>>
    /\ prev = "CLOSED"
    /\ streak = 0
    /\ cw = <<>>
    /\ th = [task |-> [i \in WarmTaskIds |-> FreeTask],
             call |-> [c \in WarmCalls |-> IdleCall({})],
             warming_tasks |-> [k \in WarmKeys |-> 0],
             wb |-> {}]

\* the task creation loop from key number n of the list on: a task is
\* created for a key that is not in warming_tasks; st.full says that the
\* model has no task left to create
RECURSIVE create_tasks(_, _, _, _)
create_tasks(keys, n, ttl, st) ==
    IF n > Len(keys) THEN st
    ELSE IF st.warming_tasks[keys[n]] # 0 THEN create_tasks(keys, n + 1, ttl, st)
    ELSE IF \A i \in WarmTaskIds : st.task[i].pc # "free" THEN [st EXCEPT !.full = TRUE]
    ELSE LET i == CHOOSE i \in WarmTaskIds :
                    /\ st.task[i].pc = "free"
                    /\ \A j \in WarmTaskIds : st.task[j].pc = "free" => i <= j
         IN  create_tasks(keys, n + 1, ttl,
                 [st EXCEPT !.task[i] = [pc |-> "pending", key |-> keys[n],
                                         ttl |-> ttl, hit |-> FALSE, out |-> "none"],
                            !.warming_tasks[keys[n]] = i,
                            !.tasks = st.tasks \cup {i}])

\* the cleanup loop: self.warming_tasks.pop(key, None) for every key listed
pop_keys(warming_tasks, keys) ==
    [k \in DOMAIN warming_tasks |->
        IF \E n \in 1..Len(keys) : keys[n] = k THEN 0 ELSE warming_tasks[k]]

\* warm_custom_data(specs) up to its first suspension or return: gather of
\* no task returns without suspending, and the cleanup runs at once
WarmCall(c, keys, ttl) ==
    /\ th.call[c].pc = "idle"
    /\ EnableWarming
    /\ LET st == create_tasks(keys, 1, ttl,
                     [task |-> th.task, warming_tasks |-> th.warming_tasks,
                      tasks |-> {}, full |-> FALSE])
       IN  /\ ~st.full
           /\ IF st.tasks = {}
              THEN th' = [th EXCEPT !.warming_tasks = pop_keys(st.warming_tasks, keys),
                                    !.call[c] = IdleCall({})]
              ELSE th' = [th EXCEPT !.task = st.task,
                                    !.warming_tasks = st.warming_tasks,
                                    !.call[c] = [pc |-> "gather", keys |-> keys,
                                                 tasks |-> st.tasks, res |-> {}]]
    /\ UNCHANGED <<cb, now, connected, l2, l1, prev, streak, cw>>

\* the event loop runs a task: warm_custom_item up to its first suspension
\* or return.  `existing` is tested for truth; with a ttl the compute
\* function is called next, without one get is called with the compute
\* function and calls it unless L1 holds a value that is not None
WarmStart(i) ==
    /\ th.task[i].pc = "pending"
    /\ LET k == get_l1_key(th.task[i].key, Default)
           existing == l1_get(l1, k, now)
       IN  /\ l1' = l1_after_get(l1, k, now)
           /\ IF truthy(existing)
              THEN th' = [th EXCEPT !.task[i].pc = "done", !.task[i].out = "skipped"]
              ELSE IF th.task[i].ttl
              THEN th' = [th EXCEPT !.task[i].pc = "compute",
                                    !.task[i].hit = existing # None]
              ELSE IF existing # None
              THEN th' = [th EXCEPT !.task[i].pc = "done", !.task[i].out = "skipped"]
              ELSE th' = [th EXCEPT !.task[i].pc = "compute"]
    /\ UNCHANGED <<cb, now, connected, l2, prev, streak, cw>>

\* the compute function returns v: with a ttl the task calls set, without
\* one get creates the write-back task and returns
WarmComputeReturn(i, v) ==
    /\ th.task[i].pc = "compute"
    /\ LET k == get_l1_key(th.task[i].key, Default) IN
       IF th.task[i].ttl
       THEN /\ l1' = l1_set(l1, k, v, now)
            /\ th' = [th EXCEPT !.task[i].pc = "done", !.task[i].out = "cached"]
       ELSE /\ l1' = l1
            /\ th' = [th EXCEPT !.task[i].pc = "done", !.task[i].out = "cached",
                                 !.wb = th.wb \cup {<<k, v>>}]
    /\ UNCHANGED <<cb, now, connected, l2, prev, streak, cw>>

\* a failure that ends every task that is in its compute function
WarmComputeRaiseStopping(i) ==
    /\ th.task[i].pc = "compute"
    /\ th' = [th EXCEPT !.task = [j \in WarmTaskIds |->
                                     IF th.task[j].pc = "compute"
                                     THEN [th.task[j] EXCEPT !.pc = "done", !.out = "failed"]
                                     ELSE th.task[j]]]
    /\ UNCHANGED <<cb, now, connected, l2, l1, prev, streak, cw>>

\* the compute function raises: warm_custom_item logs the error and returns
WarmComputeRaise(i) ==
    /\ th.task[i].pc = "compute"
    /\ th' = [th EXCEPT !.task[i].pc = "done", !.task[i].out = "failed"]
    /\ UNCHANGED <<cb, now, connected, l2, l1, prev, streak, cw>>

\* the event loop runs a write-back task of get: _cache_value
WarmWriteBack ==
    /\ \E x \in th.wb :
        /\ l1' = l1_set(l1, x[1], x[2], now)
        /\ th' = [th EXCEPT !.wb = th.wb \ {x}]
    /\ UNCHANGED <<cb, now, connected, l2, prev, streak, cw>>

\* every task of the call is done: gather returns, the cleanup pops every
\* key of the list and the call returns
WarmGatherDone(c) ==
    /\ th.call[c].pc = "gather"
    /\ \A i \in th.call[c].tasks : th.task[i].pc = "done"
    /\ th' = [th EXCEPT
                !.task = [i \in WarmTaskIds |->
                            IF i \in th.call[c].tasks THEN FreeTask ELSE th.task[i]],
                !.warming_tasks = pop_keys(th.warming_tasks, th.call[c].keys),
                !.call[c] = IdleCall({ th.task[i].out : i \in th.call[c].tasks })]
    /\ UNCHANGED <<cb, now, connected, l2, l1, prev, streak, cw>>

\* the application caches a value: set of the cache
WarmCacheSet(key, v) ==
    /\ l1' = l1_set(l1, get_l1_key(key, Default), v, now)
    /\ UNCHANGED <<cb, now, th, connected, l2, prev, streak, cw>>

WarmNext ==
    \/ \E c \in WarmCalls, keys \in WarmSpecs, ttl \in BOOLEAN : WarmCall(c, keys, ttl)
    \/ \E i \in WarmTaskIds : WarmStart(i)
    \/ \E i \in WarmTaskIds : WarmComputeReturn(i, V1)
    \/ \E i \in WarmTaskIds : WarmComputeRaise(i)
    \/ WarmWriteBack
    \/ \E c \in WarmCalls : WarmGatherDone(c)
    \/ \E key \in WarmKeys, v \in {V1, Zero} : WarmCacheSet(key, v)

SpecWarm == WarmInit /\ [][WarmNext]_vars

\* SpecWarmOne: one warming call at a time
WarmOneNext ==
    \/ \E keys \in WarmSpecs, ttl \in BOOLEAN : WarmCall("c1", keys, ttl)
    \/ \E i \in WarmTaskIds : WarmStart(i)
    \/ \E i \in WarmTaskIds : WarmComputeReturn(i, V1)
    \/ \E i \in WarmTaskIds : WarmComputeRaise(i)
    \/ WarmWriteBack
    \/ WarmGatherDone("c1")
    \/ \E key \in WarmKeys, v \in {V1, Zero} : WarmCacheSet(key, v)

SpecWarmOne == WarmInit /\ [][WarmOneNext]_vars

\* the tasks created and not yet complete
InFlight == { i \in WarmTaskIds : th.task[i].pc \in {"pending", "compute"} }

\* C18 as stated: a warming task never invokes the compute function for a
\* key that is cached, and with no warming call in progress warming_tasks is
\* empty.
C18_AsClaimed ==
    /\ \A i \in WarmTaskIds : th.task[i].pc = "compute" => ~th.task[i].hit
    /\ (\A c \in WarmCalls : th.call[c].pc = "idle") =>
          \A k \in WarmKeys : th.warming_tasks[k] = 0

\* C19 as stated: at most one warming task per key is in flight.
C19_AsClaimed ==
    \A i, j \in InFlight : th.task[i].key = th.task[j].key => i = j

\* C20 as stated: the number of warming tasks running at the same time
\* never exceeds warming_concurrency.
C20_AsClaimed ==
    Cardinality({ i \in WarmTaskIds : th.task[i].pc = "compute" }) <= WarmingConcurrency

\* task i's compute function raises in this step
C21Fails(i) ==
    th.task[i].pc = "compute" /\ th'.task[i].pc = "done" /\ th'.task[i].out = "failed"

\* C21: when the compute function of one key raises, the task of that key
\* ends and nothing else happens: no other task is stopped, no call is
\* ended, nothing is cached for the key; a task whose compute function
\* returns caches its value; and a call whose tasks have all ended returns
\* normally, with warming_tasks cleaned of its keys, whether or not one of
\* them failed (checked under SpecWarmOne).
C21_FailureContained ==
    [][\A i \in WarmTaskIds :
          /\ C21Fails(i) =>
                /\ l1' = l1
                /\ th'.wb = th.wb
                /\ th'.call = th.call
                /\ th'.warming_tasks = th.warming_tasks
                /\ \A j \in WarmTaskIds \ {i} : th'.task[j] = th.task[j]
          /\ (th.task[i].pc = "compute" /\ th'.task[i].out = "cached") =>
                LET k == get_l1_key(th.task[i].key, Default) IN
                IF th.task[i].ttl
                THEN l1_get(l1', k, now) = V1
                ELSE <<k, V1>> \in th'.wb
          /\ \A c \in WarmCalls :
                (th.call[c].pc = "gather" /\ th'.call[c].pc # "gather") =>
                    /\ th'.call[c].pc = "idle"
                    /\ \A n \in 1..Len(th.call[c].keys) :
                          th'.warming_tasks[th.call[c].keys[n]] = 0]_vars

\* a call has returned of whose tasks one failed and another cached its
\* value
C21_Witness ==
    \E c \in WarmCalls :
        th.call[c].pc = "idle" /\ {"failed", "cached"} \subseteq th.call[c].res

(***************************************************************************)
(* SpecShutdown: MultiLevelCache.initialize and shutdown next to the tasks *)
(* the cache has started: the metrics loop, warming tasks, a get whose     *)
(* compute function runs in the worker pool, and the write-back task of a  *)
(* get.  The variable th holds the coordinator and the state of each task; *)
(* connected is the L2 client's _connected.                                *)
(***************************************************************************)
ShutdownWarmTasks == {"wt1", "wt2"}

\* history: the tasks as they were when l2_cache.disconnect was called
NoSnapshot ==
    [taken |-> FALSE, metrics |-> "none", warm |-> [w \in ShutdownWarmTasks |-> "none"],
     get |-> "none", wb |-> "none"]

ShutdownInit ==
    /\ cb = CircuitBreakerInit
    /\ now = 0
    /\ connected = FALSE
    /\ l2 = <<>>
    /\ l1 = <<>>
    /\ prev = "CLOSED"
    /\ streak = 0
    /\ cw = <<>>
    /\ th = [initialized |-> FALSE, pc |-> "none", metrics |-> "none",
             warm |-> [w \in ShutdownWarmTasks |-> "none"], warming_tasks |-> {},
             get |-> "none", wb |-> "none", snap |-> NoSnapshot]

ShutdownParked == <<cb, now, l2, l1, prev, streak, cw>>

\* initialize: connect, then create the metrics task; a failed connect
\* raises and leaves the cache uninitialized
CacheInitialize ==
    /\ ~th.initialized
    /\ th.pc = "none"
    /\ \E ok \in BOOLEAN :
        IF ok
        THEN /\ connected' = TRUE
             /\ th' = [th EXCEPT !.initialized = TRUE, !.metrics = "sleeping"]
        ELSE UNCHANGED <<connected, th>>
    /\ UNCHANGED ShutdownParked

\* a warming call creates a task and registers it in warming_tasks
ShutdownWarmCreate(w) ==
    /\ th.initialized
    /\ th.warm[w] = "none"
    /\ th' = [th EXCEPT !.warm[w] = "pending", !.warming_tasks = th.warming_tasks \cup {w}]
    /\ UNCHANGED <<connected, cb, now, l2, l1, prev, streak, cw>>

\* the event loop runs a warming task up to a suspension (a backend command
\* or its compute function); a task cancelled before it ran ends
ShutdownWarmStep(w) ==
    /\ th.warm[w] \in {"pending", "running", "cancelling"}
    /\ th' = [th EXCEPT
                !.warm[w] = IF th.warm[w] = "pending" THEN "running" ELSE "none",
                !.warming_tasks = IF th.warm[w] = "pending" THEN th.warming_tasks
                                  ELSE th.warming_tasks \ {w}]
    /\ UNCHANGED <<connected, cb, now, l2, l1, prev, streak, cw>>

\* a get misses both tiers and hands its compute function to the worker
\* pool (run_in_executor)
ShutdownGetCompute ==
    /\ th.initialized
    /\ th.get = "none"
    /\ th' = [th EXCEPT !.get = "pool"]
    /\ UNCHANGED <<connected, cb, now, l2, l1, prev, streak, cw>>

\* the compute function returns in its worker thread
ShutdownPoolReturn ==
    /\ th.get = "pool"
    /\ th' = [th EXCEPT !.get = "resuming"]
    /\ UNCHANGED <<connected, cb, now, l2, l1, prev, streak, cw>>

\* the get resumes: it creates the write-back task and returns
ShutdownGetReturn ==
    /\ th.get = "resuming"
    /\ th.wb = "none"
    /\ th' = [th EXCEPT !.get = "none", !.wb = "pending"]
    /\ UNCHANGED <<connected, cb, now, l2, l1, prev, streak, cw>>

\* the event loop runs the write-back task: _cache_value writes L1 and
\* sends the SET command if the L2 client is connected; then the command is
\* answered
ShutdownWriteBackStep ==
    /\ th.wb \in {"pending", "cmd"}
    /\ th' = [th EXCEPT !.wb = IF th.wb = "pending" /\ connected THEN "cmd" ELSE "none"]
    /\ UNCHANGED <<connected, cb, now, l2, l1, prev, streak, cw>>

\* shutdown up to its first suspension: cancel the metrics task, await it
ShutdownCall ==
    /\ th.initialized
    /\ th.pc = "none"
    /\ th' = [th EXCEPT !.pc = "await_metrics", !.metrics = "cancelling",
                         !.snap = NoSnapshot]
    /\ UNCHANGED <<connected, cb, now, l2, l1, prev, streak, cw>>

\* the metrics loop receives CancelledError and breaks
MetricsCancelled ==
    /\ th.metrics = "cancelling"
    /\ th' = [th EXCEPT !.metrics = "ended"]
    /\ UNCHANGED <<connected, cb, now, l2, l1, prev, streak, cw>>

\* cancel_all_warming_tasks: cancel() is requested for every registered
\* task and the registry is cleared; no task is awaited
cancel_all_warming_tasks(warm, warming_tasks) ==
    [w \in DOMAIN warm |->
        IF w \in warming_tasks /\ warm[w] \in {"pending", "running"}
        THEN "cancelling" ELSE warm[w]]

\* shutdown from the end of the metrics task to its next suspension:
\* warmer.shutdown(), compute_executor.shutdown(wait=True), which blocks the
\* event loop until the worker threads are through, and the call of
\* l2_cache.disconnect, which awaits redis_client.close()
ShutdownResume ==
    /\ th.pc = "await_metrics"
    /\ th.metrics = "ended"
    /\ LET warm == cancel_all_warming_tasks(th.warm, th.warming_tasks)
           get == IF th.get = "pool" THEN "resuming" ELSE th.get
       IN  th' = [th EXCEPT !.pc = "closing", !.warm = warm, !.warming_tasks = {},
                            !.get = get,
                            !.snap = [taken |-> TRUE, metrics |-> th.metrics,
                                      warm |-> warm, get |-> get, wb |-> th.wb]]
    /\ UNCHANGED <<connected, cb, now, l2, l1, prev, streak, cw>>

\* close() is through: disconnect clears _connected, shutdown clears
\* _initialized and returns
ShutdownReturn ==
    /\ th.pc = "closing"
    /\ connected' = FALSE
    /\ th' = [th EXCEPT !.pc = "none", !.initialized = FALSE, !.metrics = "none"]
    /\ UNCHANGED ShutdownParked

ShutdownNext ==
    \/ CacheInitialize
    \/ \E w \in ShutdownWarmTasks : ShutdownWarmCreate(w)
    \/ \E w \in ShutdownWarmTasks : ShutdownWarmStep(w)
    \/ ShutdownGetCompute
    \/ ShutdownPoolReturn
    \/ ShutdownGetReturn
    \/ ShutdownWriteBackStep
    \/ ShutdownCall
    \/ MetricsCancelled
    \/ ShutdownResume
    \/ ShutdownReturn

SpecShutdown == ShutdownInit /\ [][ShutdownNext]_vars

\* C22 as stated: at the moment l2_cache.disconnect runs, the metrics loop
\* has terminated, no warming task is still running, the compute worker
\* pool is drained, and no write-back task is pending or in progress.
C22_AsClaimed ==
    th.snap.taken =>
        /\ th.snap.metrics = "ended"
        /\ \A w \in ShutdownWarmTasks : th.snap.warm[w] = "none"
        /\ th.snap.get # "pool"
        /\ th.snap.wb = "none"

(***************************************************************************)
(* SpecManager: tasks calling CacheManager.initialize and shutdown.  The   *)
(* variable th holds the manager (_lock, _cache, _initialized), the        *)
(* MultiLevelCache objects created so far and the calls in progress.       *)
(***************************************************************************)
CacheIds == 1..MaxCaches

ManagerInit ==
    /\ cb = CircuitBreakerInit
    /\ now = 0
    /\ connected = FALSE
    /\ l2 = <<>>
    /\ l1 = <<>>
    /\ prev = "CLOSED"
    /\ streak = 0
    /\ cw = <<>>
    /\ th = [lock |-> "free", cache |-> 0, initialized |-> FALSE,
             obj |-> [i \in CacheIds |-> [state |-> "none", teardowns |-> 0]],
             op |-> [t \in Tasks |-> [pc |-> "idle", kind |-> "none"]]]

\* a lock that is never held
locked_never(lock) == FALSE

\* asyncio.Lock.locked()
locked(lock) == lock # "free"

\* get_cache(): 0 stands for None
get_cache(m) == IF m.initialized THEN m.cache ELSE 0

\* the body of `async with self._lock` of task t's call, from the lock
\* taken to the first suspension or the return (which releases the lock).
\* initialize: nothing if initialized, else create the MultiLevelCache and
\* await its initialize (connect).  shutdown: if there is an initialized
\* cache, await its shutdown, which tears down unless its own _initialized
\* is false
ManagerBody(t, kind) ==
    LET returned == [th EXCEPT !.lock = "free", !.op[t] = [pc |-> "done", kind |-> kind]]
    IN
    IF kind = "initialize"
    THEN IF th.initialized
         THEN th' = returned
         ELSE \E i \in CacheIds :
                /\ th.obj[i].state = "none"
                /\ \A j \in CacheIds : th.obj[j].state = "none" => i <= j
                /\ th' = [th EXCEPT !.lock = t, !.cache = i,
                                    !.obj[i].state = "created",
                                    !.op[t] = [pc |-> "connect", kind |-> kind]]
    ELSE IF th.cache # 0 /\ th.initialized
         THEN IF th.obj[th.cache].state \in {"live", "closing"}
              THEN th' = [th EXCEPT !.lock = t,
                                    !.obj[th.cache].state = "closing",
                                    !.obj[th.cache].teardowns = @ + 1,
                                    !.op[t] = [pc |-> "teardown", kind |-> kind]]
              ELSE th' = [returned EXCEPT !.cache = 0, !.initialized = FALSE]
         ELSE th' = returned

\* a task calls initialize or shutdown: it takes the lock if it is free and
\* runs the body, else it waits for the lock
ManagerCall(t, kind) ==
    /\ th.op[t].pc \in {"idle", "done", "raised"}
    /\ IF locked(th.lock)
       THEN th' = [th EXCEPT !.op[t] = [pc |-> "wait_lock", kind |-> kind]]
       ELSE ManagerBody(t, kind)
    /\ UNCHANGED <<cb, now, connected, l2, l1, prev, streak, cw>>

\* a waiting task gets the lock
ManagerAcquire(t) ==
    /\ th.op[t].pc = "wait_lock"
    /\ ~locked(th.lock)
    /\ ManagerBody(t, th.op[t].kind)
    /\ UNCHANGED <<cb, now, connected, l2, l1, prev, streak, cw>>

\* connect of the new cache ends: the cache and the manager are
\* initialized, or connect raises and initialize raises the same, leaving
\* _cache set and _initialized false
ManagerConnectReply(t) ==
    /\ th.op[t].pc = "connect"
    /\ \E ok \in BOOLEAN :
        th' = IF ok
              THEN [th EXCEPT !.lock = "free", !.initialized = TRUE,
                              !.obj[th.cache].state = "live",
                              !.op[t].pc = "done"]
              ELSE [th EXCEPT !.lock = "free",
                              !.obj[th.cache].state = "failed",
                              !.op[t].pc = "raised"]
    /\ UNCHANGED <<cb, now, connected, l2, l1, prev, streak, cw>>

\* MultiLevelCache.shutdown is through: the manager drops the cache
ManagerTeardownDone(t) ==
    /\ th.op[t].pc = "teardown"
    /\ th' = [th EXCEPT !.lock = "free", !.cache = 0, !.initialized = FALSE,
                         !.obj[th.cache].state = "down",
                         !.op[t].pc = "done"]
    /\ UNCHANGED <<cb, now, connected, l2, l1, prev, streak, cw>>

ManagerNext ==
    \/ \E t \in Tasks, kind \in {"initialize", "shutdown"} : ManagerCall(t, kind)
    \/ \E t \in Tasks : ManagerAcquire(t)
    \/ \E t \in Tasks : ManagerConnectReply(t)
    \/ \E t \in Tasks : ManagerTeardownDone(t)

SpecManager == ManagerInit /\ [][ManagerNext]_vars

\* the coordinators that are initialized or being torn down
LiveCaches == { i \in CacheIds : th.obj[i].state \in {"live", "closing"} }

\* C23: at most one MultiLevelCache is live at a time; no coordinator is
\* torn down twice, one that is down was torn down once, one whose connect
\* failed never; get_cache returns a coordinator exactly when the manager
\* is initialized, and then the live one; and an initialize call that finds
\* the manager initialized returns with the manager and its coordinator as
\* they were.
C23_OneCoordinator ==
    /\ [](/\ Cardinality(LiveCaches) <= 1
          /\ \A i \in CacheIds :
                /\ th.obj[i].teardowns <= 1
                /\ th.obj[i].state \in {"closing", "down"} => th.obj[i].teardowns = 1
                /\ th.obj[i].state \in {"created", "live", "failed"} => th.obj[i].teardowns = 0
          /\ get_cache(th) # 0 <=> th.initialized
          /\ th.initialized => LiveCaches = {get_cache(th)})
    /\ [][\A t \in Tasks :
              (/\ th.op[t].pc \in {"idle", "done", "raised", "wait_lock"}
               /\ th'.op[t] = [pc |-> "done", kind |-> "initialize"]
               /\ th'.op[t] # th.op[t]) =>
                  /\ th.initialized
                  /\ th'.initialized
                  /\ th'.cache = th.cache
                  /\ th'.obj = th.obj]_vars

\* one coordinator failed to connect, one was torn down, a third is live
\* and is what get_cache returns
C23_Witness ==
    /\ \E i, j, k \in CacheIds :
          /\ th.obj[i].state = "failed"
          /\ th.obj[j].state = "down"
          /\ th.obj[k].state = "live"
    /\ get_cache(th) # 0

(***************************************************************************)
(* SpecBatch: MultiLevelCache.clear_pattern with as many matching L2 keys  *)
(* as take several DELETE batches.  The entries are counted, not named: th *)
(* holds the call's position, len(keys), the loop index i, deleted_total,  *)
(* l1_cleared, and gone, the number of entries the backend has deleted for *)
(* the call.  A key that KEYS listed may expire before its DELETE arrives  *)
(* and is then not counted by the backend; a command that fails has        *)
(* deleted nothing.                                                        *)
(***************************************************************************)
MaxKeys == 201
MaxL1Matches == 2

BatchInit ==
    /\ cb = CircuitBreakerInit
    /\ now = 0
    /\ connected \in BOOLEAN
    /\ l2 = <<>>
    /\ l1 = <<>>
    /\ prev = "CLOSED"
    /\ streak = 0
    /\ cw = <<>>
    /\ th = [pc |-> "idle", nkeys |-> 0, i |-> 0, deleted_total |-> 0,
             l1_cleared |-> 0, gone |-> 0, ret |-> 0]

BatchParked == <<cb, now, connected, l2, l1, prev, streak, cw>>

\* UniversalRedisCache.clear_pattern returns l2_cleared, and
\* MultiLevelCache.clear_pattern returns l1_cleared + l2_cleared
clear_pattern_return(rec, l2_cleared) ==
    [rec EXCEPT !.pc = "done", !.ret = rec.l1_cleared + l2_cleared]

\* `except Exception: ... return 0`
on_exception(rec) == 0

\* clear_pattern(pattern, cache_type) with m matching entries in L1, up to
\* the KEYS command
BatchClearCall(m) ==
    /\ th.pc \in {"idle", "done"}
    /\ LET rec == [pc |-> "keys", nkeys |-> 0, i |-> 0, deleted_total |-> 0,
                   l1_cleared |-> m, gone |-> 0, ret |-> 0]
       IN  th' = IF ~connected THEN clear_pattern_return(rec, 0) ELSE rec
    /\ UNCHANGED BatchParked

\* the backend answers KEYS with n keys
BatchKeysReply(n) ==
    /\ th.pc = "keys"
    /\ th' = IF n = 0 THEN clear_pattern_return(th, 0)
             ELSE [th EXCEPT !.pc = "del", !.nkeys = n]
    /\ UNCHANGED BatchParked

\* the backend answers the DELETE of keys[i:i + batch_size]; `expired` of
\* the batch's keys were no longer there
BatchDeleteReply(expired) ==
    /\ th.pc = "del"
    /\ LET batch == Min(BatchSize, th.nkeys - th.i)
           deleted == batch - expired
           rec == [th EXCEPT !.i = th.i + BatchSize,
                             !.deleted_total = th.deleted_total + deleted,
                             !.gone = th.gone + deleted]
       IN  /\ expired <= batch
           /\ th' = IF rec.i >= rec.nkeys
                    THEN clear_pattern_return(rec, rec.deleted_total)
                    ELSE rec
    /\ UNCHANGED BatchParked

\* KEYS or a DELETE fails
BatchCommandFails ==
    /\ th.pc \in {"keys", "del"}
    /\ th' = clear_pattern_return(th, on_exception(th))
    /\ UNCHANGED BatchParked

BatchNext ==
    \/ \E m \in 0..MaxL1Matches : BatchClearCall(m)
    \/ \E n \in 0..MaxKeys : BatchKeysReply(n)
    \/ \E expired \in 0..1 : BatchDeleteReply(expired)
    \/ BatchCommandFails

SpecBatch == BatchInit /\ [][BatchNext]_vars

\* C27 (as stated): the result of clear_pattern is the number of entries
\* removed from L1 plus the number of entries L2 deleted, and the deleted
\* counts of the batches sum to the L2 part of the result.
C27_AsClaimed ==
    th.pc = "done" => th.ret = th.l1_cleared + th.gone

(***************************************************************************)
(* SpecBreaker: is_open, record_success and record_failure of one          *)
(* CircuitBreaker called directly, in any order and at any time.  th holds *)
(* the latest call, what it returned, and the breaker's _last_success_time.*)
(***************************************************************************)
BreakerInit ==
    /\ cb = CircuitBreakerInit
    /\ now = 0
    /\ th = [op |-> "none", ret |-> None, last_success_time |-> 0]
    /\ prev = "CLOSED"
    /\ streak = 0
    /\ connected = FALSE
    /\ l2 = <<>>
    /\ l1 = <<>>
    /\ cw = <<>>

BreakerParked == <<prev, streak, connected, l2, l1, cw>>

IsOpenCall ==
    /\ cb' = is_open_state(cb, now)
    /\ th' = [th EXCEPT !.op = "is_open",
                        !.ret = IF is_open(cb, now) THEN True ELSE False]
    /\ UNCHANGED <<now, BreakerParked>>

RecordSuccessCall ==
    /\ cb' = record_success(cb)
    /\ th' = [op |-> "record_success", ret |-> None, last_success_time |-> now]
    /\ UNCHANGED <<now, BreakerParked>>

RecordFailureCall ==
    /\ cb.failure_count < MaxFailures
    /\ cb' = record_failure(cb, now)
    /\ th' = [th EXCEPT !.op = "record_failure", !.ret = None]
    /\ UNCHANGED <<now, BreakerParked>>

BreakerTick ==
    /\ now < MaxTime
    /\ now' = now + 1
    /\ UNCHANGED <<cb, th, BreakerParked>>

BreakerNext ==
    \/ IsOpenCall
    \/ RecordSuccessCall
    \/ RecordFailureCall
    \/ BreakerTick

SpecBreaker == BreakerInit /\ [][BreakerNext]_vars

\* C30: whenever the breaker is OPEN or HALF_OPEN its failure count is at
\* least the threshold, and whenever it is CLOSED the count is below the
\* threshold.
C30_StateMatchesCount ==
    /\ cb.state \in {"OPEN", "HALF_OPEN"} => cb.failure_count >= Threshold
    /\ cb.state = "CLOSED" => cb.failure_count < Threshold

\* is_open has found the timeout over and moved the breaker to HALF_OPEN
\* after more failures than the threshold
C30_Witness ==
    /\ th.op = "is_open" /\ th.ret = False
    /\ cb.state = "HALF_OPEN"
    /\ cb.failure_count > Threshold

(***************************************************************************)
(* SpecThreshold: the breaker's methods called directly on a breaker whose *)
(* threshold is any of 0..MaxThreshold.  th holds the threshold, the       *)
(* latest call and the breaker state it found.                             *)
(***************************************************************************)
MaxThreshold == 2

\* a record_failure that leaves last_failure_time as it was
record_failure_keeping_time(b, t, threshold) ==
    LET b1 == [b EXCEPT !.failure_count = b.failure_count + 1]
    IN  IF b1.failure_count >= threshold THEN [b1 EXCEPT !.state = "OPEN"] ELSE b1

\* record_failure of a breaker constructed with the given threshold
record_failure_at(b, t, threshold) ==
    LET b1 == [b EXCEPT !.failure_count = b.failure_count + 1,
                        !.last_failure_time = t]
    IN  IF b1.failure_count >= threshold THEN [b1 EXCEPT !.state = "OPEN"] ELSE b1

ThresholdInit ==
    /\ cb = CircuitBreakerInit
    /\ now = 0
    /\ th \in [threshold : 0..MaxThreshold, op : {"none"}, found : {"CLOSED"}]
    /\ prev = "CLOSED"
    /\ streak = 0
    /\ connected = FALSE
    /\ l2 = <<>>
    /\ l1 = <<>>
    /\ cw = <<>>

ThresholdIsOpen ==
    /\ cb' = is_open_state(cb, now)
    /\ th' = [th EXCEPT !.op = "is_open", !.found = cb.state]
    /\ UNCHANGED <<now, BreakerParked>>

ThresholdSuccess ==
    /\ cb' = record_success(cb)
    /\ th' = [th EXCEPT !.op = "record_success", !.found = cb.state]
    /\ UNCHANGED <<now, BreakerParked>>

ThresholdFailure ==
    /\ cb.failure_count < MaxFailures
    /\ cb' = record_failure_at(cb, now, th.threshold)
    /\ th' = [th EXCEPT !.op = "record_failure", !.found = cb.state]
    /\ UNCHANGED <<now, BreakerParked>>

ThresholdTick ==
    /\ now < MaxTime
    /\ now' = now + 1
    /\ UNCHANGED <<cb, th, BreakerParked>>

ThresholdNext ==
    \/ ThresholdIsOpen
    \/ ThresholdSuccess
    \/ ThresholdFailure
    \/ ThresholdTick

SpecThreshold == ThresholdInit /\ [][ThresholdNext]_vars

\* C31: a record_failure that finds the breaker HALF_OPEN leaves it OPEN
\* with last_failure_time the time of that failure, so that is_open is true
\* again for the whole timeout, whatever the threshold.
C31_ProbeFailureReopens ==
    [][(cb.state = "HALF_OPEN" /\ ThresholdFailure) =>
            /\ cb'.state = "OPEN"
            /\ cb'.last_failure_time = now
            /\ is_open(cb', now)]_vars

\* a failure was recorded on a HALF_OPEN breaker whose last failure was
\* earlier, with the largest threshold
C31_Witness ==
    /\ th.op = "record_failure" /\ th.found = "HALF_OPEN"
    /\ th.threshold = MaxThreshold
    /\ cb.state = "OPEN" /\ cb.last_failure_time = now /\ now > Timeout

(***************************************************************************)
(* Claims about MultiLevelCache.                                           *)
(***************************************************************************)
GetDone(t) == th[t].pc = "done" /\ th[t].frame = "get"

ComputedOnce(t) ==
    (GetDone(t) /\ th[t].compute) =>
        /\ th[t].ret # None
        /\ th[t].src \in {"l1", "l2", "compute"}
        /\ th[t].ncomp = (IF th[t].src = "compute" THEN 1 ELSE 0)

C3_AsClaimed ==
    \A e \in CacheEntries :
        Cardinality({ t \in Tasks : /\ th[t].pc = "compute"
                                    /\ th[t].key = e.key
                                    /\ th[t].cache_type = e.cache_type }) <= 1

\* C13 as stated: set never raises, whatever the L2 client does, and it
\* returns True only if its L1 write succeeded.
C13_AsClaimed ==
    \A t \in Callers :
        (th[t].frame = "set" /\ th[t].pc \in {"done", "raised"}) =>
            /\ th[t].pc = "done"
            /\ th[t].ret = True => th[t].l1w = "ok"

DeleteDone(t) == th[t].pc = "done" /\ th[t].frame = "delete" /\ th[t].dl.on

C15Removed(e) ==
    \/ /\ l1_has(l1, get_l1_key(e.key, e.cache_type))
       /\ ~l1_has(l1', get_l1_key(e.key, e.cache_type))
    \/ /\ l2[get_cache_key(e.key, e.cache_type)] # None
       /\ l2'[get_cache_key(e.key, e.cache_type)] = None

\* C15 as stated: a step of clear_pattern(pattern, C) removes from L1 and
\* from L2 only entries stored under category C whose key matches the
\* pattern; every other entry is retained.
C15_AsClaimed ==
    [][\A t \in Callers, e \in ClearEntries :
          (th'[t].frame = "clear" /\ now' = now /\ C15Removed(e)) =>
              /\ e.cache_type = th'[t].cache_type
              /\ match_pattern(e.key, th'[t].key)]_vars

\* C17 as stated: _deserialize(_serialize(v)) equals v, and the stored bytes
\* start with the compression marker exactly when compression is enabled
\* and the encoded size is greater than compression_threshold.
C17_AsClaimed ==
    th.pc = "out" =>
        /\ th.out = th.value
        /\ th.data[1] = "compressed:" <=> (th.enabled /\ th.value[3] > CompressionThreshold)

\* C4: a get with a compute function that neither tier serves invokes the
\* function, and returns its value or raises its error; no error of the L2
\* lookup (client not connected, connection error, retries exhausted,
\* breaker open) escapes from get.
C4_ComputeOnMiss ==
    \A t \in Callers :
        th[t].frame = "get" =>
            /\ th[t].pc = "raised" => (th[t].exc = "compute_error" /\ th[t].ncomp = 1)
            /\ (th[t].compute /\ th[t].pc = "done" /\ th[t].src \notin {"l1", "l2"})
                  => (th[t].src = "compute" /\ th[t].ncomp = 1 /\ th[t].ret # None)
            /\ th[t].pc = "done" => th[t].exc = "none"

\* the breaker rejected the L2 lookup and the get returned the computed value
C4_Witness ==
    \E t \in Callers : /\ GetDone(t)
                       /\ th[t].compute
                       /\ th[t].how = "rejected"
                       /\ th[t].src = "compute"
                       /\ th[t].ret # None

\* the L1 entries of c2 that c1 does not hold
new_entries(c1, c2) ==
    { c2[i] : i \in 1..Len(c2) } \ { c1[i] : i \in 1..Len(c1) }

\* the step stores value v under L1 key k by set, by the backfill of an L2
\* hit or by the write-back of a computed value
C25Stores(k, v) ==
    \/ \E t \in Callers, e \in CacheEntries :
          /\ get_l1_key(e.key, e.cache_type) = k
          /\ SetCall(t, e, v)
    \/ \E t \in Callers :
          /\ th[t].frame = "get"
          /\ get_l1_key(th[t].key, th[t].cache_type) = k
          /\ L2Respond(t)
          /\ th'[t].pc = "done" /\ th'[t].src = "l2" /\ th'[t].ret = v
    \/ \E w \in WBs :
          /\ get_l1_key(th[w].key, th[w].cache_type) = k
          /\ th[w].val = v
          /\ WBStart(w)

\* the step creates the write-back task w for a value the compute function
\* of a get for the same entry has just returned
C25Computed(w) ==
    \E t \in Callers, v \in Values :
        /\ ComputeReturn(t, v)
        /\ th'[w].val = v
        /\ th'[w].key = th[t].key /\ th'[w].cache_type = th[t].cache_type
        /\ th'[t].src = "compute" /\ th'[t].ret = v

\* a step of a get without a compute function that is not the return of
\* an L1 or L2 hit
C25MissStep(t) ==
    /\ \/ \E e \in CacheEntries : GetCall(t, e, FALSE)
       \/ th[t].frame = "get" /\ ~th[t].compute /\ (L2Respond(t) \/ L2Wake(t))
    /\ th'[t].src \notin {"l1", "l2"}

\* C25: an entry appears in L1 only in a step that stores a value passed to
\* set, returned by an L2 hit or held by a write-back task for the same
\* category:key; a write-back task holds the value a compute function
\* returned for its entry; and no step of a get without a compute function
\* that misses both tiers changes L1 or L2.
C25_NoSpeculativeInsert ==
    /\ [][\A e \in new_entries(l1, l1') : C25Stores(e.key, e.val)]_vars
    /\ [][\A w \in WBs : (th'[w].pc = "pending" /\ th[w].pc # "pending")
                              => C25Computed(w)]_vars
    /\ [][\A t \in Callers : C25MissStep(t) => (l1' = l1 /\ l2' = l2)]_vars

\* a get without a compute function has missed both tiers and returned None
\* while L1 holds an entry a write-back stored after the get's L1 lookup
C25_Witness ==
    /\ GetDone("t1") /\ ~th["t1"].compute
    /\ th["t1"].src = "none" /\ th["t1"].how = "answered" /\ th["t1"].ret = None
    /\ Len(l1) = 1 /\ l1[1].val \in Values
    /\ cw[l1[1].key].stored

\* C26: a get that missed both tiers and returned the value its compute
\* function gave has increased l1_misses, l2_misses and compute_hits by one
\* each and no hit counter; a get served from L1 has increased l1_hits by
\* one, no other hit, miss or compute counter, and has invoked no compute
\* function.
C26_StatsAccounting ==
    \A t \in Callers :
        GetDone(t) =>
            /\ th[t].src = "compute" =>
                    /\ th[t].stats.l1_misses = 1
                    /\ th[t].stats.l2_misses = 1
                    /\ th[t].stats.compute_hits = 1
                    /\ th[t].stats.l1_hits = 0
                    /\ th[t].stats.l2_hits = 0
            /\ th[t].src = "l1" =>
                    /\ th[t].stats.l1_hits = 1
                    /\ th[t].stats.l2_hits = 0
                    /\ th[t].stats.l1_misses = 0
                    /\ th[t].stats.l2_misses = 0
                    /\ th[t].stats.compute_hits = 0
                    /\ th[t].ncomp = 0
                    /\ th[t].ncmd = 0

\* a get was answered "no such key" by L2, computed, and returned the value
C26_Witness ==
    /\ GetDone("t1") /\ th["t1"].src = "compute"
    /\ th["t1"].how = "answered" /\ th["t1"].ncmd >= 1
    /\ th["t1"].ret \in Values

\* the backend answers the lookup of a get by task t that missed L1, and the
\* get returns a value
C28HitReturn(t) ==
    /\ th[t].frame = "get"
    /\ L2Respond(t)
    /\ th'[t].pc = "done" /\ th'[t].ret # None

C29_ComputeErrorRaised ==
    /\ [](\A t \in Callers :
            th[t].pc = "raised" =>
                /\ th[t].frame = "get" /\ th[t].exc = "compute_error"
                /\ th[t].stats.error_types["compute_error"] = 1
                /\ th[t].stats.compute_hits = 0
                /\ th[t].ncomp = 1)
    /\ [][\A t \in Callers :
            ComputeRaise(t) =>
                /\ th'[t].pc = "raised"
                /\ \A w \in WBs : th'[w] = th[w]
                /\ l1' = l1 /\ l2' = l2]_vars

\* L2 answered "no such key", the compute function raised and the get
\* raised; no tier holds the entry and no write-back task exists
C29_Witness ==
    /\ th["t1"].pc = "raised" /\ th["t1"].how = "answered"
    /\ th["t1"].stats.error_types["compute_error"] = 1
    /\ l1 = <<>>
    /\ l2[get_cache_key(th["t1"].key, th["t1"].cache_type)] = None
    /\ \A w \in WBs : th[w].pc = "idle"

\* C32 (as stated): an L2 operation that protect rejects because the
\* breaker is OPEN within its timeout does not sleep and is not retried.
C32_AsClaimed ==
    \A t \in DOMAIN th : ~(th[t].pc = "sleep" /\ th[t].how = "rejected")

\* C33 (as stated): a get without a compute function that a task calls
\* right after its delete of the same entry returned (the DELETE command
\* answered by the backend, no set and no get with a compute function
\* started in between) returns None, also when a write-back task was
\* pending while the delete ran.
C33_AsClaimed ==
    \A t \in Callers : (GetDone(t) /\ th[t].ad = "answered") => th[t].ret = None

\* the keys of a list
C34Listed(keys) == { keys[n] : n \in 1..Len(keys) }

\* C34 (as stated): in the step in which a warming call returns, no task
\* for a key of its list is still to run or running, whether this call or
\* an earlier one created it.
C34_AsClaimed ==
    [][\A c \in WarmCalls :
          /\ (th.call[c].pc = "gather" /\ th'.call[c].pc = "idle") =>
                \A i \in WarmTaskIds :
                    th'.task[i].pc \in {"pending", "compute"} =>
                        th'.task[i].key \notin C34Listed(th.call[c].keys)
          /\ \A keys \in WarmSpecs, ttl \in BOOLEAN :
                (WarmCall(c, keys, ttl) /\ th'.call[c].pc = "idle") =>
                    \A i \in WarmTaskIds :
                        th'.task[i].pc \in {"pending", "compute"} =>
                            th'.task[i].key \notin C34Listed(keys)]_vars

\* an L2 operation ends in this step having recorded a breaker trip
C35TripRecorded ==
    \E t \in DOMAIN th :
        /\ th[t].pc \in {"cmd", "sleep"} /\ th'[t].pc = "done"
        /\ th'[t].stats.circuit_breaker_trips > 0

\* C35 (as stated): circuit_breaker_trips is incremented in exactly the
\* steps in which the breaker state changes to OPEN.
C35_AsClaimed ==
    [][C35TripRecorded <=> (cb.state # "OPEN" /\ cb'.state = "OPEN")]_vars

\* the numerators of overall_hit_rate and cache_miss_rate; both are divided
\* by total_requests, and the rate is 0.0 when total_requests is 0
total_hits(s) == s.l1_hits + s.l2_hits

cache_misses(s) == s.l1_misses + s.l2_misses - s.l2_hits

\* C36 (as stated): a completed get has added one to total_requests, and
\* the hits it has added do not exceed the requests it has added.
C36_AsClaimed ==
    \A t \in Callers :
        GetDone(t) =>
            /\ th[t].stats.total_requests = 1
            /\ total_hits(th[t].stats) <= th[t].stats.total_requests
            /\ cache_misses(th[t].stats) >= 0

\* C37 (as stated): a get without a compute function returns nothing or the
\* value stored under its own (category, key) pair, never the value stored
\* under another pair.
C37_AsClaimed ==
    \A t \in Callers, e \in KeysEntries :
        (GetDone(t) /\ th[t].key = e.key /\ th[t].cache_type = e.cache_type) =>
            th[t].ret \in {None, value_of(e)}

\* the latest operation of task t was the second get of a warming task for
\* entry e, it computed a value, the write-back of that value has run, and
\* L1 still holds the entry
C38Warmed(t, e) ==
    /\ GetDone(t) /\ th[t].compute /\ th[t].src = "compute"
    /\ th[t].key = e.key /\ th[t].cache_type = e.cache_type
    /\ th[t].ret \in Values
    /\ \A w \in WBs : th[w].pc \in {"idle", "done"}
    /\ l1_get(l1, get_l1_key(e.key, e.cache_type), now) = th[t].ret

\* the get called in this step returns the warmed value at once, from L1
C38Served(t, v) ==
    /\ th'[t].pc = "done" /\ th'[t].src = "l1" /\ th'[t].ret = v

\* C38 (as stated): a read through get_knowledge_base or
\* get_business_lookup that follows the successful warming of the same
\* query or phone is served from the cache, without the compute function.
C38_AsClaimed ==
    [][\A t \in Callers :
          /\ (C38Warmed(t, warm_knowledge_entry(hash_of_query)) /\ GetKnowledgeBase(t))
                  => C38Served(t, th[t].ret)
          /\ (C38Warmed(t, business_entry) /\ GetBusinessLookup(t))
                  => C38Served(t, th[t].ret)]_vars

\* the business-lookup half of C38 alone
C38_BusinessLookupServed ==
    [][\A t \in Callers :
          (C38Warmed(t, business_entry) /\ GetBusinessLookup(t))
              => C38Served(t, th[t].ret)]_vars

\* C39 (as stated): one call of the decorated function invokes the wrapped
\* function at most once, and not at all when the cache holds the value.
C39_AsClaimed ==
    \A t \in Callers :
        /\ th[t].ncomp <= 1
        /\ th[t].src \in {"l1", "l2"} => th[t].ncomp = 0

====
